---- MODULE Spec2Model ----
(***************************************************************************)
(* Model of the prank window of src/anomaly_001.py: the close/minimize      *)
(* guard (on_close_attempt, on_unmap, show_overlay_then_reset) and the      *)
(* emergency quiz (emergency_quiz_flow).                                    *)
(*                                                                         *)
(* The program is single threaded.  A handler runs to completion except    *)
(* where it opens a modal dialog (messagebox / simpledialog): the dialog    *)
(* runs a nested event loop, so timers and window-manager events (close,   *)
(* unmap) are handled while the handler that opened the dialog is still    *)
(* suspended.  The suspended handlers form `stack`; only the topmost one   *)
(* can resume, when its dialog is answered.                                 *)
(***************************************************************************)
EXTENDS Integers, Sequences, FiniteSets, TLC

\* ------------------------------------------------------------------ bounds
MaxAttempts == 4        \* attempts are not counted beyond this value
MaxDepth == 2           \* suspended handlers (open modal dialogs) at a time
MaxOverlays == 2        \* overlay windows the toolkit can hold at a time
NumSamples == 2         \* outcomes of random.sample the quiz is run with
MaxFailures == 2        \* failed emergency runs are not told apart beyond this
MaxNotepads == 2        \* notepad windows the Yes flow opens in one run
MaxReveals == 3         \* patterns shown are not counted beyond this
MaxEffects == 2         \* full-screen effect windows on the screen at a time

\* ------------------------------------------------------- program constants
MIN_OVERLAY_SECONDS == 9
MAX_OVERLAY_SECONDS == 17
QUIZ_QUESTIONS == 10
TRIVIA_QUESTIONS == 5
CODE_WIDTH == 4
MAX_CODE_VALUE == 9999
NUM_SERVICES == 3
\* shake(i) moves the window for i below 10, flicker(i) colours it for i below 3
SHAKE_STEPS == 10
FLICKER_STEPS == 3
\* flicker_times of show_image_glitch, steps of the fade of the photo flash
FLICKER_TIMES == 3
FADE_STEPS == 20

VARIABLES
    proc,              \* "imported" (run_app not called yet) | "running" | "exited"
    exit_code,         \* argument of os._exit, -1 while running
    SECRET_CODE,       \* the 4-digit code of this run, a sequence of characters
    helpers,           \* the SecretHelpers object: secret, clue_positions, trivia_positions
    drawn,             \* history: the number random.randint gave for SECRET_CODE
    shown,             \* history: the patterns Clue Finder and Trivia Helper have
                       \* shown, and how many times one was shown
    failures,          \* history: emergency runs that ended without the unlock
    notepads,          \* the BinaryTypingNotepad windows, in the order of their creation
    active_notepad,    \* root.active_notepad: 0 (None) or the index of a notepad
    lookup,            \* the last call of fetch_ip_location: what the services
                       \* answered and what it returned
    glitch,            \* the glitch animation in the main window
    effects,           \* the full-screen windows of the glitch effects
    attempts,          \* root.attempts
    overlay_open,      \* root.overlay_open
    active_overlay,    \* root.active_overlay, NoWindow for None
    overlays,          \* overlay Toplevels that exist
    finish_timers,     \* pending overlay.after(duration_ms, finish)
    deiconify_timers,  \* pending root.after(50, deiconify), a count
    win_state,         \* root.state(): "normal" | "iconic"
    unmap_events,      \* <Unmap> events queued for root, a count
    focus,             \* the window that was last given the input focus
    stack,             \* suspended handlers, innermost last
    n_close,           \* history: close-button attempts since start / last expiry
    n_min,             \* history: minimize attempts since start / last expiry
    n_opened,          \* history: overlays created since start / last expiry
    reset_from         \* history: value of attempts the last expiry reset, 0 if none

vars == << proc, exit_code, SECRET_CODE, helpers, drawn, shown, failures,
          notepads, active_notepad, lookup, glitch, effects, attempts, overlay_open, active_overlay,
           overlays, finish_timers, deiconify_timers, win_state, unmap_events,
           focus, stack, n_close, n_min, n_opened, reset_from >>

overlay_vars == << overlay_open, active_overlay, overlays, finish_timers, n_opened >>
code_vars == << SECRET_CODE, helpers, drawn >>
notepad_vars == << notepads, active_notepad >>
effect_vars == << lookup, glitch, effects >>
process_vars == << proc, exit_code, code_vars, shown, failures, notepad_vars, effect_vars >>

\* ----------------------------------------------------------------- windows
NoWindow == << "none", 0 >>
RootWindow == << "root", 0 >>
OverlayWindow(i) == << "overlay", i >>
DialogWindow(d) == << "dialog", d >>
NotepadWindow(k) == << "notepad", k >>
OverlayIds == 1..MaxOverlays

\* ----------------------------------------------------------------- strings
\* A Python str is a sequence of one-character strings; the result of
\* simpledialog.askstring is such a string or None.
None == [none |-> TRUE, str |-> << >>]
Str(s) == [none |-> FALSE, str |-> s]
Truthy(x) == ~x.none /\ x.str # << >>

Whitespace == {" ", "\t", "\n"}

RECURSIVE lstrip(_)
lstrip(s) == IF s # << >> /\ Head(s) \in Whitespace THEN lstrip(Tail(s)) ELSE s

RECURSIVE rstrip(_)
rstrip(s) ==
    IF s # << >> /\ s[Len(s)] \in Whitespace
    THEN rstrip(SubSeq(s, 1, Len(s) - 1))
    ELSE s

strip(s) == rstrip(lstrip(s))

UpperChars == << "A", "B", "C", "D", "E", "F", "G", "H", "I", "J", "K", "L", "M",
                 "N", "O", "P", "Q", "R", "S", "T", "U", "V", "W", "X", "Y", "Z" >>
LowerChars == << "a", "b", "c", "d", "e", "f", "g", "h", "i", "j", "k", "l", "m",
                 "n", "o", "p", "q", "r", "s", "t", "u", "v", "w", "x", "y", "z" >>

LowerChar(c) ==
    IF \E k \in 1..Len(UpperChars) : UpperChars[k] = c
    THEN LowerChars[CHOOSE k \in 1..Len(UpperChars) : UpperChars[k] = c]
    ELSE c

UpperChar(c) ==
    IF \E k \in 1..Len(LowerChars) : LowerChars[k] = c
    THEN UpperChars[CHOOSE k \in 1..Len(LowerChars) : LowerChars[k] = c]
    ELSE c

lower(s) == [k \in 1..Len(s) |-> LowerChar(s[k])]
upper(s) == [k \in 1..Len(s) |-> UpperChar(s[k])]

\* ------------------------------------------------------------- secret code
DigitChars == << "0", "1", "2", "3", "4", "5", "6", "7", "8", "9" >>

RECURSIVE Decimal(_)
Decimal(n) ==
    IF n < 10 THEN << DigitChars[n + 1] >>
    ELSE Decimal(n \div 10) \o << DigitChars[(n % 10) + 1] >>

RECURSIVE ZeroPad(_, _)
ZeroPad(s, w) == IF Len(s) >= w THEN s ELSE ZeroPad(<< "0" >> \o s, w)

\* "{:d}".format(n), without the width
Format_d(n) == Decimal(n)

\* "{:04d}".format(n)
Format04d(n) == ZeroPad(Decimal(n), CODE_WIDTH)

\* the outcomes of random.randint(0, 9999) the model is run with
SecretValues == {0, 42, 4821}

new_secret_code == { Format04d(n) : n \in SecretValues }

\* ---------------------------------------------------------- SecretHelpers
\* sorted(xs) for a set of numbers
RECURSIVE sorted(_)
sorted(S) ==
    IF S = {} THEN << >>
    ELSE LET m == CHOOSE x \in S : \A y \in S : x <= y
         IN  << m >> \o sorted(S \ {m})

Range(q) == { q[k] : k \in 1..Len(q) }

\* the outcomes of random.shuffle(list(range(4)))
AllShuffles ==
    { p \in [1..CODE_WIDTH -> 0..(CODE_WIDTH - 1)] : Range(p) = 0..(CODE_WIDTH - 1) }
\* the outcome the window guard and the emergency quiz are run with
SomeShuffles == { << 0, 3, 1, 2 >> }

\* SecretHelpers.__init__ with the trivia positions cut from the middle of the
\* shuffled list, so that one position is in both lists
SecretHelpers_overlapping(secret_code, all_positions) ==
    [secret |-> secret_code,
     clue_positions |-> sorted({all_positions[1], all_positions[2]}),
     trivia_positions |-> sorted({all_positions[2], all_positions[3]})]

\* SecretHelpers.__init__(root, secret_code), all_positions after the shuffle
SecretHelpers(secret_code, all_positions) ==
    LET clue_positions == sorted(Range(SubSeq(all_positions, 1, 2)))
    IN  [secret |-> secret_code,
         clue_positions |-> clue_positions,
         trivia_positions |->
            sorted({ all_positions[k] : k \in
                       { j \in 1..Len(all_positions) :
                            all_positions[j] \notin Range(clue_positions) } })]

\* ------------------------------------------------------------------ frames
\* A suspended handler: the function, the modal dialog it waits in, and its
\* local variables (secret_code, picks, the loop index i, ans, correct, wrong,
\* code, pattern); wrong is -1 until it is computed.
Frame(fn, pc) ==
    [fn |-> fn, pc |-> pc, secret_code |-> << >>, picks |-> << >>, i |-> 0,
     ans |-> None, correct |-> 0, wrong |-> -1, code |-> None, pattern |-> << >>]

Top == stack[Len(stack)]
Pop == SubSeq(stack, 1, Len(stack) - 1)
Running == proc = "running"

\* a modal dialog can still be opened, the queued <Unmap> events included
RoomForDialog == Len(stack) + unmap_events < MaxDepth
\* an attempt can still be counted, the queued <Unmap> events included
RoomForAttempt == attempts + unmap_events < MaxAttempts

WindowExists(w) ==
    \/ w = RootWindow
    \/ \E k \in overlays : w = OverlayWindow(k)
    \/ \E k \in 1..Len(notepads) : notepads[k].open /\ w = NotepadWindow(k)

\* bring_to_front(win): the window that holds the focus afterwards
bring_to_front(win) ==
    IF win = NoWindow THEN focus
    ELSE IF WindowExists(win) THEN win
    ELSE focus

\* ----------------------------------------------------------------- overlay
\* random.randint(9, 17) * 1000
OverlayDurations == { s * 1000 : s \in MIN_OVERLAY_SECONDS..MAX_OVERLAY_SECONDS }

FreeOverlayIds == OverlayIds \ (overlays \cup { t.overlay : t \in finish_timers })

\* show_overlay_then_reset without the overlay_open test at its head
show_overlay_unguarded(duration_ms) ==
    /\ FreeOverlayIds # {}
    /\ LET k == CHOOSE x \in FreeOverlayIds : \A y \in FreeOverlayIds : x <= y
       IN  /\ overlays' = overlays \cup {k}
           /\ overlay_open' = TRUE
           /\ active_overlay' = OverlayWindow(k)
           /\ finish_timers' = finish_timers \cup {[overlay |-> k, ms |-> duration_ms]}
           /\ focus' = OverlayWindow(k)
           /\ n_opened' = n_opened + 1

\* show_overlay_then_reset that sets overlay_open but not root.active_overlay
show_overlay_not_recorded(duration_ms) ==
    IF overlay_open
    THEN /\ focus' = bring_to_front(active_overlay)
         /\ UNCHANGED overlay_vars
    ELSE /\ FreeOverlayIds # {}
         /\ LET k == CHOOSE x \in FreeOverlayIds : \A y \in FreeOverlayIds : x <= y
            IN  /\ overlays' = overlays \cup {k}
                /\ overlay_open' = TRUE
                /\ active_overlay' = active_overlay
                /\ finish_timers' = finish_timers \cup {[overlay |-> k, ms |-> duration_ms]}
                /\ focus' = OverlayWindow(k)
                /\ n_opened' = n_opened + 1

\* show_overlay_then_reset without overlay.after(duration_ms, finish)
show_overlay_no_timer(duration_ms) ==
    IF overlay_open
    THEN /\ focus' = bring_to_front(active_overlay)
         /\ UNCHANGED overlay_vars
    ELSE /\ FreeOverlayIds # {}
         /\ LET k == CHOOSE x \in FreeOverlayIds : \A y \in FreeOverlayIds : x <= y
            IN  /\ overlays' = overlays \cup {k}
                /\ overlay_open' = TRUE
                /\ active_overlay' = OverlayWindow(k)
                /\ finish_timers' = finish_timers
                /\ focus' = OverlayWindow(k)
                /\ n_opened' = n_opened + 1

\* show_overlay_then_reset that sets the timer again, with the new duration,
\* when the overlay is open
show_overlay_reschedules(duration_ms) ==
    IF overlay_open
    THEN /\ focus' = bring_to_front(active_overlay)
         /\ finish_timers' = { [t EXCEPT !.ms = duration_ms] : t \in finish_timers }
         /\ UNCHANGED << overlay_open, active_overlay, overlays, n_opened >>
    ELSE /\ FreeOverlayIds # {}
         /\ LET k == CHOOSE x \in FreeOverlayIds : \A y \in FreeOverlayIds : x <= y
            IN  /\ overlays' = overlays \cup {k}
                /\ overlay_open' = TRUE
                /\ active_overlay' = OverlayWindow(k)
                /\ finish_timers' = finish_timers \cup {[overlay |-> k, ms |-> duration_ms]}
                /\ focus' = OverlayWindow(k)
                /\ n_opened' = n_opened + 1

\* show_overlay_then_reset(root, duration_ms)
show_overlay_then_reset(duration_ms) ==
    IF overlay_open
    THEN /\ focus' = bring_to_front(active_overlay)
         /\ UNCHANGED overlay_vars
    ELSE /\ FreeOverlayIds # {}
         /\ LET k == CHOOSE x \in FreeOverlayIds : \A y \in FreeOverlayIds : x <= y
            IN  /\ overlays' = overlays \cup {k}
                /\ overlay_open' = TRUE
                /\ active_overlay' = OverlayWindow(k)
                /\ finish_timers' = finish_timers \cup {[overlay |-> k, ms |-> duration_ms]}
                /\ focus' = OverlayWindow(k)
                /\ n_opened' = n_opened + 1

\* finish that leaves root.attempts as it is
finish_keeps_attempts(t) ==
    /\ Running
    /\ t \in finish_timers
    /\ finish_timers' = finish_timers \ {t}
    /\ overlays' = overlays \ {t.overlay}
    /\ overlay_open' = FALSE
    /\ active_overlay' = NoWindow
    /\ focus' = RootWindow
    /\ n_close' = 0 /\ n_min' = 0 /\ n_opened' = 0
    /\ reset_from' = attempts
    /\ UNCHANGED << attempts, deiconify_timers, win_state, unmap_events, stack,
                    process_vars >>

\* finish that leaves root.active_overlay as it is
finish_keeps_reference(t) ==
    /\ Running
    /\ t \in finish_timers
    /\ finish_timers' = finish_timers \ {t}
    /\ overlays' = overlays \ {t.overlay}
    /\ overlay_open' = FALSE
    /\ attempts' = 0
    /\ focus' = RootWindow
    /\ n_close' = 0 /\ n_min' = 0 /\ n_opened' = 0
    /\ reset_from' = attempts
    /\ UNCHANGED << active_overlay, deiconify_timers, win_state, unmap_events, stack,
                    process_vars >>

\* the callback of overlay.after(duration_ms, finish)
finish(t) ==
    /\ Running
    /\ t \in finish_timers
    /\ finish_timers' = finish_timers \ {t}
    /\ overlays' = overlays \ {t.overlay}
    /\ overlay_open' = FALSE
    /\ active_overlay' = NoWindow
    /\ attempts' = 0
    /\ focus' = RootWindow
    /\ n_close' = 0 /\ n_min' = 0 /\ n_opened' = 0
    /\ reset_from' = attempts
    /\ UNCHANGED << deiconify_timers, win_state, unmap_events, stack, process_vars >>

OverlayExpires == \E t \in finish_timers : finish(t)

\* ----------------------------------------------------------- close button
\* the close button with the toolkit's default handler: the root window is
\* destroyed, mainloop returns and the process ends
on_close_attempt_destroys ==
    /\ Running
    /\ proc' = "exited"
    /\ exit_code' = 0
    /\ UNCHANGED << code_vars, shown, failures, notepad_vars, effect_vars, attempts, overlay_vars,
                    deiconify_timers, win_state, unmap_events, focus, stack, n_close,
                    n_min, reset_from >>

\* on_close_attempt that does not count an attempt made while the overlay is open
on_close_attempt_counts_unless_open ==
    /\ Running
    /\ RoomForAttempt
    /\ attempts' = IF overlay_open THEN attempts ELSE attempts + 1
    /\ n_close' = n_close + 1
    /\ IF attempts' = 1
       THEN /\ RoomForDialog
            /\ stack' = Append(stack, Frame("on_close_attempt", "warning"))
            /\ focus' = DialogWindow(Len(stack'))
            /\ UNCHANGED overlay_vars
       ELSE /\ \E dur \in OverlayDurations : show_overlay_then_reset(dur)
            /\ UNCHANGED stack
    /\ UNCHANGED << deiconify_timers, win_state, unmap_events, n_min, reset_from,
                    process_vars >>

\* on_close_attempt that warns on the second attempt instead of the first
on_close_attempt_warns_late ==
    /\ Running
    /\ RoomForAttempt
    /\ attempts' = attempts + 1
    /\ n_close' = n_close + 1
    /\ IF attempts' = 2
       THEN /\ RoomForDialog
            /\ stack' = Append(stack, Frame("on_close_attempt", "warning"))
            /\ focus' = DialogWindow(Len(stack'))
            /\ UNCHANGED overlay_vars
       ELSE /\ \E dur \in OverlayDurations : show_overlay_then_reset(dur)
            /\ UNCHANGED stack
    /\ UNCHANGED << deiconify_timers, win_state, unmap_events, n_min, reset_from,
                    process_vars >>

\* the WM_DELETE_WINDOW handler of the main window
on_close_attempt ==
    /\ Running
    /\ RoomForAttempt
    /\ attempts' = attempts + 1
    /\ n_close' = n_close + 1
    /\ IF attempts' = 1
       THEN /\ RoomForDialog
            /\ stack' = Append(stack, Frame("on_close_attempt", "warning"))
            /\ focus' = DialogWindow(Len(stack'))
            /\ UNCHANGED overlay_vars
       ELSE /\ \E dur \in OverlayDurations : show_overlay_then_reset(dur)
            /\ UNCHANGED stack
    /\ UNCHANGED << deiconify_timers, win_state, unmap_events, n_min, reset_from,
                    process_vars >>

\* ---------------------------------------------------------------- minimize
\* the user or the window manager iconifies the main window; the toolkit
\* queues an <Unmap> event for it
Minimize ==
    /\ Running
    /\ win_state = "normal"
    /\ RoomForAttempt
    /\ RoomForDialog
    /\ win_state' = "iconic"
    /\ unmap_events' = unmap_events + 1
    /\ UNCHANGED << attempts, overlay_vars, deiconify_timers, focus, stack,
                    n_close, n_min, reset_from, process_vars >>

\* on_unmap that counts the attempt twice
on_unmap_counts_twice ==
    /\ Running
    /\ unmap_events > 0
    /\ unmap_events' = unmap_events - 1
    /\ IF win_state = "iconic"
       THEN /\ attempts' = attempts + 2
            /\ n_min' = n_min + 1
            /\ deiconify_timers' = deiconify_timers + 1
            /\ IF attempts' = 1
               THEN /\ stack' = Append(stack, Frame("on_unmap", "warning"))
                    /\ focus' = DialogWindow(Len(stack'))
                    /\ UNCHANGED overlay_vars
               ELSE /\ \E dur \in OverlayDurations : show_overlay_then_reset(dur)
                    /\ UNCHANGED stack
       ELSE UNCHANGED << attempts, n_min, deiconify_timers, stack, focus, overlay_vars >>
    /\ UNCHANGED << win_state, n_close, reset_from, process_vars >>

\* on_unmap that counts the attempt but schedules no deiconify
on_unmap_no_restore ==
    /\ Running
    /\ unmap_events > 0
    /\ unmap_events' = unmap_events - 1
    /\ IF win_state = "iconic"
       THEN /\ attempts' = attempts + 1
            /\ n_min' = n_min + 1
            /\ UNCHANGED deiconify_timers
            /\ IF attempts' = 1
               THEN /\ stack' = Append(stack, Frame("on_unmap", "warning"))
                    /\ focus' = DialogWindow(Len(stack'))
                    /\ UNCHANGED overlay_vars
               ELSE /\ \E dur \in OverlayDurations : show_overlay_then_reset(dur)
                    /\ UNCHANGED stack
       ELSE UNCHANGED << attempts, n_min, deiconify_timers, stack, focus, overlay_vars >>
    /\ UNCHANGED << win_state, n_close, reset_from, process_vars >>

\* on_unmap that opens the overlay already on the first attempt
on_unmap_no_warning ==
    /\ Running
    /\ unmap_events > 0
    /\ unmap_events' = unmap_events - 1
    /\ IF win_state = "iconic"
       THEN /\ attempts' = attempts + 1
            /\ n_min' = n_min + 1
            /\ deiconify_timers' = deiconify_timers + 1
            /\ \E dur \in OverlayDurations : show_overlay_then_reset(dur)
            /\ UNCHANGED stack
       ELSE UNCHANGED << attempts, n_min, deiconify_timers, stack, focus, overlay_vars >>
    /\ UNCHANGED << win_state, n_close, reset_from, process_vars >>

\* the <Unmap> handler of the main window
on_unmap ==
    /\ Running
    /\ unmap_events > 0
    /\ unmap_events' = unmap_events - 1
    /\ IF win_state = "iconic"
       THEN /\ attempts' = attempts + 1
            /\ n_min' = n_min + 1
            /\ deiconify_timers' = deiconify_timers + 1
            /\ IF attempts' = 1
               THEN /\ stack' = Append(stack, Frame("on_unmap", "warning"))
                    /\ focus' = DialogWindow(Len(stack'))
                    /\ UNCHANGED overlay_vars
               ELSE /\ \E dur \in OverlayDurations : show_overlay_then_reset(dur)
                    /\ UNCHANGED stack
       ELSE UNCHANGED << attempts, n_min, deiconify_timers, stack, focus, overlay_vars >>
    /\ UNCHANGED << win_state, n_close, reset_from, process_vars >>

\* the restore callback raising the window without deiconifying it
deiconify_keeps_iconic ==
    /\ Running
    /\ deiconify_timers > 0
    /\ deiconify_timers' = deiconify_timers - 1
    /\ UNCHANGED << attempts, overlay_vars, win_state, unmap_events, focus, stack,
                    n_close, n_min, reset_from, process_vars >>

\* the callback of root.after(50, lambda: root.deiconify())
deiconify ==
    /\ Running
    /\ deiconify_timers > 0
    /\ deiconify_timers' = deiconify_timers - 1
    /\ win_state' = "normal"
    /\ UNCHANGED << attempts, overlay_vars, unmap_events, focus, stack,
                    n_close, n_min, reset_from, process_vars >>

\* messagebox.showwarning returns: the handler goes on with bring_to_front(root)
WarningDismissed ==
    /\ Running
    /\ stack # << >>
    /\ Top.pc = "warning"
    /\ stack' = Pop
    /\ focus' = bring_to_front(RootWindow)
    /\ UNCHANGED << attempts, overlay_vars, deiconify_timers, win_state, unmap_events,
                    n_close, n_min, reset_from, process_vars >>

\* --------------------------------------------------------- emergency quiz
\* the expected answers of qpool in emergency_quiz_flow, in the order of the code
EmergencyAnswers ==
    << << "r", "e", "y", "k", "j", "a", "v", "i", "k" >>,
       << "1", "9", "1", "2" >>,
       << "n", "a", "c", "l" >>,
       << "l", "e", "o", "n", "a", "r", "d", "o", " ", "d", "a", " ", "v", "i", "n", "c", "i" >>,
       << "n", "i", "t", "r", "o", "g", "e", "n" >>,
       << "j", "u", "p", "i", "t", "e", "r" >>,
       << "1", "2" >>,
       << "s", "i", "l", "v", "e", "r" >>,
       << "i", "n", "d", "i", "a" >>,
       << "a", "l", "b", "e", "r", "t", " ", "e", "i", "n", "s", "t", "e", "i", "n" >>,
       << "0" >>,
       << "l", "o", "n", "d", "o", "n" >>,
       << "y", "e", "n" >>,
       << "f", "e" >>,
       << "a", "l", "e", "x", "a", "n", "d", "e", "r", " ", "f", "l", "e", "m", "i", "n", "g" >> >>

\* the outcomes of random.sample(qpool, 10) the model is run with: ten distinct
\* indices of the pool, in the order the questions are asked
Sample(off) == [k \in 1..QUIZ_QUESTIONS |-> ((k + 4 * off - 1) % Len(EmergencyAnswers)) + 1]
Samples == { Sample(off) : off \in 0..(NumSamples - 1) }

\* what the user may type for a question whose expected answer is a
AnswerInputs(a) ==
    { None, Str(<< >>), Str(<< " " >>), Str(a), Str(upper(a)),
      Str(<< " " >> \o a \o << "\t" >>), Str(a \o << "x" >>),
      Str(SubSeq(a, 1, Len(a) - 1)) }

\* the answer test that compares the letters as typed
answer_correct_case_sensitive(ans, a) == Truthy(ans) /\ strip(ans.str) = a

\* ans and ans.strip().lower() == a.lower()
answer_correct(ans, a) == Truthy(ans) /\ lower(strip(ans.str)) = lower(a)

\* what the user may type when asked for the code
OtherDigit(c) == IF c = "0" THEN "1" ELSE "0"
CodeCores ==
    { << >>, SECRET_CODE, SubSeq(SECRET_CODE, 1, 3), SECRET_CODE \o << "0" >>,
      SubSeq(SECRET_CODE, 1, 3) \o << OtherDigit(SECRET_CODE[4]) >>,
      SubSeq(SECRET_CODE, 1, 2) \o << " " >> \o SubSeq(SECRET_CODE, 3, 4) }
CodePads == { << >>, << " " >> }
CodeInputs ==
    {None} \cup { Str(l \o c \o r) : l \in CodePads, c \in CodeCores, r \in CodePads }

\* the code test with the entry compared as typed
code_accepted_exact(code) == Truthy(code) /\ code.str = SECRET_CODE

\* code and code.strip() == secret_code
code_accepted(code) == Truthy(code) /\ strip(code.str) = Top.secret_code

\* the decision after the quiz when one wrong answer is let through
after_quiz_one_slip(correct) == IF 10 - correct <= 1 THEN "perfect" ELSE "result"

\* wrong = 10 - correct; if wrong == 0: ... else: ...
after_quiz(correct) == IF 10 - correct = 0 THEN "perfect" ELSE "result"

\* one more emergency run has ended without the unlock
OneMoreFailure == IF failures < MaxFailures THEN failures + 1 ELSE failures

InEmergency(pc) ==
    /\ Running
    /\ stack # << >>
    /\ Top.fn = "emergency_quiz_flow"
    /\ Top.pc = pc

\* the Emergency button drawing a new code before it starts the flow
EmergencyClick_regenerates ==
    /\ Running
    /\ stack = << >>
    /\ RoomForDialog
    /\ SECRET_CODE' \in new_secret_code
    /\ stack' = Append(stack, [Frame("emergency_quiz_flow", "confirm")
                                  EXCEPT !.secret_code = SECRET_CODE'])
    /\ focus' = DialogWindow(Len(stack'))
    /\ UNCHANGED << attempts, overlay_vars, deiconify_timers, win_state, unmap_events,
                    n_close, n_min, reset_from, proc, exit_code, helpers, drawn, shown,
                    failures, notepad_vars, effect_vars >>

\* the Emergency button that stays dead once a run has failed
EmergencyClick_locked_out ==
    /\ Running
    /\ stack = << >>
    /\ RoomForDialog
    /\ failures = 0
    /\ stack' = Append(stack, [Frame("emergency_quiz_flow", "confirm")
                                  EXCEPT !.secret_code = SECRET_CODE])
    /\ focus' = DialogWindow(Len(stack'))
    /\ UNCHANGED << attempts, overlay_vars, deiconify_timers, win_state, unmap_events,
                    n_close, n_min, reset_from, process_vars >>

\* the Emergency button: emergency_quiz_flow starts and asks for confirmation.
\* Buttons of the main window do not respond while a modal dialog is open.
EmergencyClick ==
    /\ Running
    /\ stack = << >>
    /\ RoomForDialog
    /\ stack' = Append(stack, [Frame("emergency_quiz_flow", "confirm")
                                  EXCEPT !.secret_code = SECRET_CODE])
    /\ focus' = DialogWindow(Len(stack'))
    /\ UNCHANGED << attempts, overlay_vars, deiconify_timers, win_state, unmap_events,
                    n_close, n_min, reset_from, process_vars >>

\* askyesno answered
EmergencyConfirm ==
    /\ InEmergency("confirm")
    /\ \/ /\ stack' = Pop
          /\ focus' = bring_to_front(RootWindow)
       \/ /\ \E picks \in Samples :
                stack' = [stack EXCEPT ![Len(stack)] =
                             [@ EXCEPT !.pc = "quiz", !.picks = picks, !.i = 0, !.correct = 0]]
          /\ focus' = DialogWindow(Len(stack))
    /\ UNCHANGED << attempts, overlay_vars, deiconify_timers, win_state, unmap_events,
                    n_close, n_min, reset_from, process_vars >>

\* one question of the loop answered; after the last one wrong = 10 - correct
\* decides between the code prompt and the result message
EmergencyAnswered(ans) ==
    /\ InEmergency("quiz")
    /\ LET a == EmergencyAnswers[Top.picks[Top.i + 1]]
           correct == IF answer_correct(ans, a) THEN Top.correct + 1 ELSE Top.correct
           i == Top.i + 1
           wrong == 10 - correct
           done == i >= Len(Top.picks)
       IN  stack' = [stack EXCEPT ![Len(stack)] =
                        [@ EXCEPT !.pc = IF done THEN after_quiz(correct) ELSE "quiz",
                                  !.i = i, !.ans = ans, !.correct = correct,
                                  !.wrong = IF done THEN wrong ELSE @]]
    /\ focus' = DialogWindow(Len(stack))
    /\ UNCHANGED << attempts, overlay_vars, deiconify_timers, win_state, unmap_events,
                    n_close, n_min, reset_from, process_vars >>

\* askstring returns what the user typed, or None
EmergencyAnswer ==
    /\ InEmergency("quiz")
    /\ \E ans \in AnswerInputs(EmergencyAnswers[Top.picks[Top.i + 1]]) :
          EmergencyAnswered(ans)

\* showinfo("Perfect") returns: the code is asked for
PerfectDismissed ==
    /\ InEmergency("perfect")
    /\ stack' = [stack EXCEPT ![Len(stack)] = [@ EXCEPT !.pc = "entercode"]]
    /\ focus' = DialogWindow(Len(stack))
    /\ UNCHANGED << attempts, overlay_vars, deiconify_timers, win_state, unmap_events,
                    n_close, n_min, reset_from, process_vars >>

\* askstring("Enter Code") returns
CodeEntered ==
    /\ InEmergency("entercode")
    /\ \E code \in CodeInputs :
          stack' = [stack EXCEPT ![Len(stack)] =
                       [@ EXCEPT !.code = code,
                                 !.pc = IF code_accepted(code) THEN "unlocked" ELSE "wrong"]]
    /\ focus' = DialogWindow(Len(stack))
    /\ UNCHANGED << attempts, overlay_vars, deiconify_timers, win_state, unmap_events,
                    n_close, n_min, reset_from, process_vars >>

\* showinfo("Unlocked") returns: root.destroy() and os._exit(0)
UnlockedDismissed ==
    /\ InEmergency("unlocked")
    /\ proc' = "exited"
    /\ exit_code' = 0
    /\ UNCHANGED << code_vars, shown, failures, notepad_vars, effect_vars, attempts, overlay_vars, deiconify_timers,
                    win_state, unmap_events, focus, stack, n_close, n_min, reset_from >>

\* showerror("Wrong") returns: the handler returns, the toolkit places the focus
WrongDismissed ==
    /\ InEmergency("wrong")
    /\ stack' = Pop
    /\ focus' \in {RootWindow, NoWindow}
    /\ failures' = OneMoreFailure
    /\ UNCHANGED << attempts, overlay_vars, deiconify_timers, win_state, unmap_events,
                    n_close, n_min, reset_from, proc, exit_code, code_vars, shown,
                    notepad_vars, effect_vars >>

\* showinfo("Emergency Result") returns: bring_to_front(root)
ResultDismissed ==
    /\ InEmergency("result")
    /\ stack' = Pop
    /\ focus' = bring_to_front(RootWindow)
    /\ failures' = OneMoreFailure
    /\ UNCHANGED << attempts, overlay_vars, deiconify_timers, win_state, unmap_events,
                    n_close, n_min, reset_from, proc, exit_code, code_vars, shown,
                    notepad_vars, effect_vars >>

\* ------------------------------------------------- clue finder and trivia
\* a pattern with the digit of every listed position and the rest as it was
RECURSIVE fill(_, _, _)
fill(s, secret, positions) ==
    IF positions = << >> THEN s
    ELSE fill([s EXCEPT ![Head(positions) + 1] = secret[Head(positions) + 1]],
              secret, Tail(positions))

\* the pattern with the digits of the positions that are not listed
reveal_others(secret, positions) ==
    fill(<< "*", "*", "*", "*" >>, secret,
         sorted((0..(CODE_WIDTH - 1)) \ Range(positions)))

\* s = list("****"); for pos in positions: s[pos] = secret[pos]; "".join(s)
reveal(secret, positions) == fill(<< "*", "*", "*", "*" >>, secret, positions)

\* the expected answers of qpool in trivia_helper, in the order of the code
TriviaAnswers ==
    << << "7", "9" >>,
       << "s", "a", "t", "u", "r", "n" >>,
       << "l", "i", "m", "a" >>,
       << "c", "e", "n", "t", "r", "a", "l", " ", "p", "r", "o", "c", "e", "s", "s", "i", "n", "g", " ", "u", "n", "i", "t" >>,
       << "3", ".", "1", "4" >>,
       << "1", "9", "8", "9" >>,
       << "s", "o", "d", "i", "u", "m" >>,
       << "g", "e", "o", "r", "g", "e", " ", "o", "r", "w", "e", "l", "l" >>,
       << "p", "a", "c", "i", "f", "i", "c" >>,
       << "p", "o", "r", "t", "u", "g", "u", "e", "s", "e" >> >>

\* the outcomes of random.sample(qpool, 5) the trivia is run with
TriviaSample(off) ==
    [k \in 1..TRIVIA_QUESTIONS |-> ((k + 5 * off - 1) % Len(TriviaAnswers)) + 1]
TriviaSamples == { TriviaSample(off) : off \in 0..(NumSamples - 1) }

\* the decision after the trivia when four correct answers are enough
after_trivia_four(correct) == IF correct >= 4 THEN "passed" ELSE "score"

\* if correct == 5: ... else: ...
after_trivia(correct) == IF correct = 5 THEN "passed" ELSE "score"

\* one more pattern has been shown
OneMoreReveal == IF shown.n < MaxReveals THEN shown.n + 1 ELSE shown.n

InHelper(fn, pcs) ==
    /\ Running
    /\ stack # << >>
    /\ Top.fn = fn
    /\ Top.pc \in pcs

\* the Clue Finder button: the pattern of the clue positions is shown
ClueClick ==
    /\ Running
    /\ stack = << >>
    /\ RoomForDialog
    /\ LET pattern == reveal(helpers.secret, helpers.clue_positions)
       IN  /\ stack' = Append(stack, [Frame("clue_finder", "shown")
                                         EXCEPT !.pattern = pattern])
           /\ shown' = [shown EXCEPT !.clue = @ \cup {pattern}, !.n = OneMoreReveal]
    /\ focus' = DialogWindow(Len(stack'))
    /\ UNCHANGED << attempts, overlay_vars, deiconify_timers, win_state, unmap_events,
                    n_close, n_min, reset_from, proc, exit_code, code_vars, failures,
                    notepad_vars, effect_vars >>

\* showinfo("Clue Finder") returns: bring_to_front(self.root)
ClueDismissed ==
    /\ InHelper("clue_finder", {"shown"})
    /\ stack' = Pop
    /\ focus' = bring_to_front(RootWindow)
    /\ UNCHANGED << attempts, overlay_vars, deiconify_timers, win_state, unmap_events,
                    n_close, n_min, reset_from, process_vars >>

\* the Trivia Helper button: five questions are drawn and the first is asked
TriviaClick ==
    /\ Running
    /\ stack = << >>
    /\ RoomForDialog
    /\ \E picks \in TriviaSamples :
          stack' = Append(stack, [Frame("trivia_helper", "quiz") EXCEPT !.picks = picks])
    /\ focus' = DialogWindow(Len(stack'))
    /\ UNCHANGED << attempts, overlay_vars, deiconify_timers, win_state, unmap_events,
                    n_close, n_min, reset_from, process_vars >>

\* one question of the loop answered; after the last one correct == 5 decides
\* between the pattern of the trivia positions and the score
TriviaAnswered(ans) ==
    /\ InHelper("trivia_helper", {"quiz"})
    /\ LET a == TriviaAnswers[Top.picks[Top.i + 1]]
           correct == IF answer_correct(ans, a) THEN Top.correct + 1 ELSE Top.correct
           i == Top.i + 1
           done == i >= Len(Top.picks)
           pc == IF done THEN after_trivia(correct) ELSE "quiz"
           pattern == IF pc = "passed"
                         THEN reveal(helpers.secret, helpers.trivia_positions)
                         ELSE << >>
       IN  /\ stack' = [stack EXCEPT ![Len(stack)] =
                            [@ EXCEPT !.pc = pc, !.i = i, !.ans = ans,
                                      !.correct = correct, !.pattern = pattern]]
           /\ shown' = IF pc = "passed"
                          THEN [shown EXCEPT !.trivia = @ \cup {pattern},
                                             !.n = OneMoreReveal]
                          ELSE shown
    /\ focus' = DialogWindow(Len(stack))
    /\ UNCHANGED << attempts, overlay_vars, deiconify_timers, win_state, unmap_events,
                    n_close, n_min, reset_from, proc, exit_code, code_vars, failures,
                    notepad_vars, effect_vars >>

\* askstring returns what the user typed, or None
TriviaAnswer ==
    /\ InHelper("trivia_helper", {"quiz"})
    /\ \E ans \in AnswerInputs(TriviaAnswers[Top.picks[Top.i + 1]]) :
          TriviaAnswered(ans)

\* showinfo("Trivia Helper") returns: bring_to_front(self.root)
TriviaDismissed ==
    /\ InHelper("trivia_helper", {"passed", "score"})
    /\ stack' = Pop
    /\ focus' = bring_to_front(RootWindow)
    /\ UNCHANGED << attempts, overlay_vars, deiconify_timers, win_state, unmap_events,
                    n_close, n_min, reset_from, process_vars >>

\* ----------------------------------------------------------------- Yes flow
\* a JSON value of a service's answer; a key that is missing reads as null
JNull == [kind |-> "null", str |-> << >>]
JStr(s) == [kind |-> "str", str |-> s]
JNum == [kind |-> "num", str |-> << >>]
\* a or b
py_or(a, b) == IF (a.kind = "str" /\ a.str # << >>) \/ a.kind = "num" THEN a ELSE b

\* what one lookup service gives: an exception (timeout, no network, HTTP
\* error), a body that is not JSON, JSON that is not an object, or an object
ServiceFailure ==
    [kind |-> "error", city |-> JNull, region |-> JNull,
     country_name |-> JNull, country |-> JNull]
ServiceAnswer(kind, city, region, country_name, country) ==
    [kind |-> kind, city |-> city, region |-> region,
     country_name |-> country_name, country |-> country]
ServiceData(city, country) == ServiceAnswer("object", JStr(city), JNull, JStr(country), JNull)
Lima == << "L", "i", "m", "a" >>
Peru == << "P", "e", "r", "u" >>
ServiceOutcomes ==
    { ServiceFailure,
      ServiceAnswer("not json", JNull, JNull, JNull, JNull),
      ServiceAnswer("not object", JNull, JNull, JNull, JNull),
      ServiceAnswer("object", JNull, JNull, JNull, JNull),
      ServiceData(<< >>, << >>),
      ServiceData(Lima, Peru),
      ServiceData(Lima, << >>),
      ServiceAnswer("object", JNull, JStr(Lima), JNull, JStr(<< "P", "E" >>)),
      ServiceAnswer("object", JStr(<< " " >>), JNull, JStr(<< " " >> \o Peru \o << "\n" >>), JNull),
      ServiceAnswer("object", JStr(Lima), JNull, JStr(<< " ", "\t" >>), JNull),
      ServiceAnswer("object", JStr(Lima), JNull, JNum, JNull),
      ServiceAnswer("object", JNum, JNull, JStr(Peru), JNull),
      ServiceAnswer("object", JStr(Lima), JNull, JStr(<< " " >>), JStr(<< "P", "E" >>)) }
Unknown == << "U", "n", "k", "n", "o", "w", "n" >>

\* one pass of the loop body without the outer try: a value that has no
\* .get or no .strip raises out of the function
provider_unguarded(r) ==
    LET city == py_or(py_or(r.city, r.region), JStr(<< >>))
        country == py_or(py_or(r.country_name, r.country), JStr(<< >>))
    IN  IF r.kind = "error" THEN [kind |-> "continue", city |-> << >>, country |-> << >>]
        ELSE IF r.kind = "not object" \/ (r.kind = "object" /\ (city.kind = "num" \/ country.kind = "num"))
            THEN [kind |-> "raise", city |-> << >>, country |-> << >>]
        ELSE IF r.kind = "not json"
            THEN [kind |-> "continue", city |-> << >>, country |-> << >>]
        ELSE IF strip(city.str) # << >> /\ strip(country.str) # << >>
            THEN [kind |-> "return", city |-> strip(city.str), country |-> strip(country.str)]
        ELSE IF strip(country.str) # << >>
            THEN [kind |-> "return", city |-> << >>, country |-> strip(country.str)]
        ELSE [kind |-> "continue", city |-> << >>, country |-> << >>]

\* one pass of the loop body of fetch_ip_location for the answer r of the
\* service: urlopen raising, data.get on a non-object and .strip() on a
\* non-string all end in `except Exception: continue`; a body that is not JSON
\* reads as {}
provider(r) ==
    LET city == py_or(py_or(r.city, r.region), JStr(<< >>))
        country == py_or(py_or(r.country_name, r.country), JStr(<< >>))
    IN  IF r.kind \in {"error", "not object"}
            THEN [kind |-> "continue", city |-> << >>, country |-> << >>]
        ELSE IF r.kind = "not json"
            THEN [kind |-> "continue", city |-> << >>, country |-> << >>]
        ELSE IF city.kind = "num" \/ country.kind = "num"
            THEN [kind |-> "continue", city |-> << >>, country |-> << >>]
        ELSE IF strip(city.str) # << >> /\ strip(country.str) # << >>
            THEN [kind |-> "return", city |-> strip(city.str), country |-> strip(country.str)]
        ELSE IF strip(country.str) # << >>
            THEN [kind |-> "return", city |-> << >>, country |-> strip(country.str)]
        ELSE [kind |-> "continue", city |-> << >>, country |-> << >>]

\* the loop of fetch_ip_location from the k-th service on; tried is the number
\* of services that were asked
RECURSIVE fetch_from(_, _)
fetch_from(services, k) ==
    IF k > Len(services)
    THEN [city |-> << >>, country |-> Unknown, tried |-> Len(services), raised |-> FALSE]
    ELSE LET o == provider(services[k])
         IN  IF o.kind = "return"
                THEN [city |-> o.city, country |-> o.country, tried |-> k, raised |-> FALSE]
             ELSE IF o.kind = "raise"
                THEN [city |-> << >>, country |-> << >>, tried |-> k, raised |-> TRUE]
             ELSE fetch_from(services, k + 1)

\* fetch_ip_location(): the services are tried in order; the first that gives a
\* country decides, and ('', 'Unknown') is the answer when none does
fetch_ip_location(services) == fetch_from(services, 1)

\* the answers of the three services in one call, as the Yes flow is run
ServiceRuns ==
    { << ServiceFailure, ServiceFailure, ServiceFailure >>,
      << ServiceFailure, ServiceData(<< >>, << >>), ServiceFailure >>,
      << ServiceFailure, ServiceData(<< >>, Peru), ServiceFailure >>,
      << ServiceData(Lima, Peru), ServiceFailure, ServiceFailure >> }
\* the answers of the three services in one call, every combination
AllServiceRuns == [1..NUM_SERVICES -> ServiceOutcomes]

NoLookup == [called |-> FALSE, services |-> << >>, result |-> fetch_from(<< >>, 1)]

\* fetch_ip_location() called and returned
Lookup ==
    /\ Running
    /\ \E services \in AllServiceRuns :
          lookup' = [called |-> TRUE, services |-> services,
                     result |-> fetch_ip_location(services)]
    /\ UNCHANGED << attempts, overlay_vars, deiconify_timers, win_state, unmap_events,
                    focus, stack, n_close, n_min, reset_from, proc, exit_code, code_vars,
                    shown, failures, notepad_vars, glitch, effects >>

\* the Yes button: yes_flow starts and asks for confirmation
YesClick ==
    /\ Running
    /\ stack = << >>
    /\ RoomForDialog
    /\ Len(notepads) < MaxNotepads
    /\ stack' = Append(stack, Frame("yes_flow", "confirm"))
    /\ focus' = DialogWindow(Len(stack'))
    /\ UNCHANGED << attempts, overlay_vars, deiconify_timers, win_state, unmap_events,
                    n_close, n_min, reset_from, process_vars >>

\* askyesno answered: on No the flow returns; on Yes the location is looked
\* up, a notepad is created and root.active_notepad refers to it
YesConfirm ==
    /\ Running
    /\ stack # << >>
    /\ Top.fn = "yes_flow"
    /\ Top.pc = "confirm"
    /\ stack' = Pop
    /\ \/ /\ focus' = bring_to_front(RootWindow)
          /\ UNCHANGED << notepad_vars, lookup >>
       \/ \E services \in ServiceRuns :
             LET loc == fetch_ip_location(services)
             IN  /\ lookup' = [called |-> TRUE, services |-> services, result |-> loc]
                 /\ notepads' = Append(notepads,
                                     [typing_running |-> TRUE, open |-> TRUE,
                                      city |-> loc.city, country |-> loc.country])
                 /\ active_notepad' = Len(notepads')
                 /\ focus' = NotepadWindow(Len(notepads'))
    /\ UNCHANGED << attempts, overlay_vars, deiconify_timers, win_state, unmap_events,
                    n_close, n_min, reset_from, proc, exit_code, code_vars, shown, failures,
                    glitch, effects >>

\* _type_next_char with idx at the end of the content: typing is over
TypingFinished ==
    /\ Running
    /\ \E k \in 1..Len(notepads) :
          /\ notepads[k].typing_running
          /\ notepads' = [notepads EXCEPT ![k].typing_running = FALSE]
    /\ UNCHANGED << attempts, overlay_vars, deiconify_timers, win_state, unmap_events,
                    focus, stack, n_close, n_min, reset_from, proc, exit_code, code_vars,
                    shown, failures, active_notepad, effect_vars >>

\* the Close button or the close box of a notepad: inert_close warns while
\* the text is being typed, and destroys the notepad afterwards (as does the
\* handler that replaces it once the background has faded)
inert_close ==
    /\ Running
    /\ \E k \in 1..Len(notepads) :
          /\ notepads[k].open
          /\ IF notepads[k].typing_running
             THEN /\ RoomForDialog
                  /\ stack' = Append(stack, [Frame("inert_close", "locked") EXCEPT !.i = k])
                  /\ focus' = DialogWindow(Len(stack'))
                  /\ UNCHANGED notepads
             ELSE /\ notepads' = [notepads EXCEPT ![k].open = FALSE]
                  /\ focus' = IF focus = NotepadWindow(k) THEN NoWindow ELSE focus
                  /\ UNCHANGED stack
    /\ UNCHANGED << attempts, overlay_vars, deiconify_timers, win_state, unmap_events,
                    n_close, n_min, reset_from, proc, exit_code, code_vars,
                    shown, failures, active_notepad, effect_vars >>

\* the "Locked" warning returns: inert_close goes on with bring_to_front(self)
LockedDismissed ==
    /\ Running
    /\ stack # << >>
    /\ Top.fn = "inert_close"
    /\ stack' = Pop
    /\ focus' = bring_to_front(NotepadWindow(Top.i))
    /\ UNCHANGED << attempts, overlay_vars, deiconify_timers, win_state, unmap_events,
                    n_close, n_min, reset_from, process_vars >>

\* ------------------------------------------------- No, Help, focus watcher
\* the No button: no_flow shows "Haha"
NoClick ==
    /\ Running
    /\ stack = << >>
    /\ RoomForDialog
    /\ stack' = Append(stack, Frame("no_flow", "haha"))
    /\ focus' = DialogWindow(Len(stack'))
    /\ UNCHANGED << attempts, overlay_vars, deiconify_timers, win_state, unmap_events,
                    n_close, n_min, reset_from, process_vars >>

\* the Help button: its lambda shows the help text
HelpClick ==
    /\ Running
    /\ stack = << >>
    /\ RoomForDialog
    /\ stack' = Append(stack, Frame("help", "help"))
    /\ focus' = DialogWindow(Len(stack'))
    /\ UNCHANGED << attempts, overlay_vars, deiconify_timers, win_state, unmap_events,
                    n_close, n_min, reset_from, process_vars >>

\* showinfo of no_flow or of Help returns: bring_to_front(root)
InfoDismissed ==
    /\ Running
    /\ stack # << >>
    /\ Top.fn \in {"no_flow", "help"}
    /\ stack' = Pop
    /\ focus' = bring_to_front(RootWindow)
    /\ UNCHANGED << attempts, overlay_vars, deiconify_timers, win_state, unmap_events,
                    n_close, n_min, reset_from, process_vars >>

\* the user clicks on a window of another program
FocusLost ==
    /\ Running
    /\ focus # NoWindow
    /\ focus' = NoWindow
    /\ UNCHANGED << attempts, overlay_vars, deiconify_timers, win_state, unmap_events,
                    stack, n_close, n_min, reset_from, process_vars >>

\* enforce_focus forgetting the attempts when it shows its popup
enforce_focus_resets ==
    /\ Running
    /\ \A k \in 1..Len(stack) : stack[k].fn # "enforce_focus"
    /\ IF focus = NoWindow
       THEN /\ RoomForDialog
            /\ stack' = Append(stack, Frame("enforce_focus", "haha"))
            /\ focus' = DialogWindow(Len(stack'))
            /\ attempts' = 0
       ELSE UNCHANGED << stack, focus, attempts >>
    /\ UNCHANGED << overlay_vars, deiconify_timers, win_state, unmap_events,
                    n_close, n_min, reset_from, process_vars >>

\* the timer of enforce_focus fires; it is set again only when the handler
\* returns, so none is pending while its popup is open. With no window of
\* the program holding the focus the window is raised and "Haha >:)" is shown
enforce_focus ==
    /\ Running
    /\ \A k \in 1..Len(stack) : stack[k].fn # "enforce_focus"
    /\ IF focus = NoWindow
       THEN /\ RoomForDialog
            /\ stack' = Append(stack, Frame("enforce_focus", "haha"))
            /\ focus' = DialogWindow(Len(stack'))
       ELSE UNCHANGED << stack, focus >>
    /\ UNCHANGED << attempts, overlay_vars, deiconify_timers, win_state, unmap_events,
                    n_close, n_min, reset_from, process_vars >>

\* showinfo of enforce_focus returns (root.focus_force has run by then) and
\* the next tick is scheduled
HahaDismissed ==
    /\ Running
    /\ stack # << >>
    /\ Top.fn = "enforce_focus"
    /\ stack' = Pop
    /\ focus' = RootWindow
    /\ UNCHANGED << attempts, overlay_vars, deiconify_timers, win_state, unmap_events,
                    n_close, n_min, reset_from, process_vars >>

\* ------------------------------------------------------------------- glitch
\* the glitch animation: phase and i are the pending step (shake(i),
\* flicker(i) or the retry of static_overlay), moved and bg the position and
\* the background of the main window, canvas the static canvas with its
\* pending removal, flash_due the pending show_realistic_flash, last what the
\* latest call of start_visual_glitch did and found
NeverCalled == [did |-> "none", overlay |-> FALSE, notepad |-> "none"]
NoGlitch ==
    [phase |-> "idle", i |-> 0, moved |-> FALSE, bg |-> "BG", canvas |-> FALSE,
     flash_due |-> FALSE, last |-> NeverCalled]
\* a call of start_visual_glitch that did this, with what it found: the
\* overlay open or not, and no notepad opened yet, the latest one on the
\* screen or the latest one closed
Called(did) ==
    [did |-> did, overlay |-> overlay_open,
     notepad |-> IF active_notepad = 0 THEN "none"
                 ELSE IF notepads[active_notepad].open THEN "open" ELSE "closed"]
\* everything but the glitch and its effect windows
outside_effects ==
    << attempts, overlay_vars, deiconify_timers, win_state, unmap_events, focus, stack,
       n_close, n_min, reset_from, proc, exit_code, code_vars, shown, failures,
       notepad_vars, lookup >>

\* a full-screen effect window: kind is "fallback" (the black canvas of
\* show_image_glitch), "image" (its picture, i the pending flicker_step) or
\* "flash" (the photo flash, i the pending fade); closer says that a timer
\* that destroys the window is pending or will be scheduled by one that is
EffectIds == 1..MaxEffects
FreeEffectIds == EffectIds \ { w.id : w \in effects }
EffectWindow(kind, i, closer) ==
    [id |-> CHOOSE x \in FreeEffectIds : \A y \in FreeEffectIds : x <= y,
     kind |-> kind, i |-> i, closer |-> closer]

\* a window that stays for ever can still be added, one identity being kept
\* for the windows that come and go
RoomForLeftWindow == Cardinality(FreeEffectIds) > 1

\* the previous glitch is over: with 20 ms and 70 ms steps, the canvas kept
\* for GLITCH_DURATION and the flash fading for 1.9 s, it is before
\* glitch_loop comes round again after 3 s at the least
GlitchOver ==
    /\ glitch.phase = "idle"
    /\ ~glitch.canvas
    /\ ~glitch.flash_due
    /\ \A w \in effects : ~w.closer

\* start_visual_glitch without the test at its head
start_visual_glitch_unguarded ==
    /\ GlitchOver
    /\ glitch' = [glitch EXCEPT !.phase = "shake", !.i = 1, !.moved = TRUE,
                                !.last = Called("started")]

\* start_visual_glitch skipping for a notepad only while it is on the screen
start_visual_glitch_open_notepad ==
    IF overlay_open \/ (active_notepad # 0 /\ notepads[active_notepad].open)
    THEN glitch' = [glitch EXCEPT !.last = Called("skipped")]
    ELSE start_visual_glitch_unguarded

\* start_visual_glitch(root): nothing while the overlay is open or
\* root.active_notepad is set (a widget object is true, destroyed or not);
\* else shake(0) moves the window and schedules shake(1)
start_visual_glitch ==
    IF overlay_open \/ active_notepad # 0
    THEN glitch' = [glitch EXCEPT !.last = Called("skipped")]
    ELSE /\ GlitchOver
         /\ glitch' = [glitch EXCEPT !.phase = "shake", !.i = 1, !.moved = TRUE,
                                     !.last = Called("started")]

\* the timer of glitch_loop fires: start_visual_glitch, and the next round is
\* scheduled
glitch_loop ==
    /\ Running
    /\ start_visual_glitch
    /\ UNCHANGED << effects, outside_effects >>

\* show_image_glitch called by static_overlay: stays on the screen a window
\* with the black canvas (the picture cannot be loaded), a window with the
\* picture, or none (another exception: the window is destroyed, and the
\* handler may call show_image_glitch again with the same three outcomes)
show_image_glitch ==
    \/ /\ FreeEffectIds # {}
       /\ effects' = effects \cup {EffectWindow("fallback", 0, TRUE)}
    \/ /\ FreeEffectIds # {}
       /\ effects' = effects \cup {EffectWindow("image", 0, TRUE)}
    \/ UNCHANGED effects

\* static_overlay(): tried again later when the window has no size yet; else
\* the canvas is placed, one style in four shows the image glitch, the
\* background is darkened, and the removal of the canvas and the photo flash
\* are scheduled
static_overlay ==
    \/ /\ glitch' = [glitch EXCEPT !.phase = "static_overlay", !.i = 0, !.bg = "BG"]
       /\ UNCHANGED effects
    \/ /\ glitch' = [glitch EXCEPT !.phase = "idle", !.i = 0, !.bg = "dark",
                                    !.canvas = TRUE, !.flash_due = TRUE]
       /\ \/ UNCHANGED effects
          \/ show_image_glitch

\* shake(i)
shake ==
    /\ Running
    /\ glitch.phase = "shake"
    /\ IF glitch.i >= SHAKE_STEPS
       THEN glitch' = [glitch EXCEPT !.phase = "flicker", !.i = 1, !.moved = FALSE,
                                    !.bg = "blast"]
       ELSE glitch' = [glitch EXCEPT !.i = glitch.i + 1, !.moved = TRUE]
    /\ UNCHANGED << effects, outside_effects >>

\* flicker(i)
flicker ==
    /\ Running
    /\ glitch.phase = "flicker"
    /\ IF glitch.i >= FLICKER_STEPS
       THEN static_overlay
       ELSE /\ glitch' = [glitch EXCEPT !.i = glitch.i + 1, !.bg = "blast"]
            /\ UNCHANGED effects
    /\ UNCHANGED outside_effects

\* static_overlay called again by its timer
static_overlay_retry ==
    /\ Running
    /\ glitch.phase = "static_overlay"
    /\ static_overlay
    /\ UNCHANGED outside_effects

\* GLITCH_DURATION after static_overlay: the canvas is destroyed
canvas_destroy ==
    /\ Running
    /\ glitch.canvas
    /\ glitch' = [glitch EXCEPT !.canvas = FALSE]
    /\ UNCHANGED << effects, outside_effects >>

\* show_realistic_flash with a try around the loading of the photo
show_realistic_flash_guarded ==
    /\ Running
    /\ glitch.flash_due
    /\ FreeEffectIds # {}
    /\ glitch' = [glitch EXCEPT !.flash_due = FALSE]
    /\ effects' = effects \cup {EffectWindow("flash", 1, TRUE)}
    /\ UNCHANGED outside_effects

\* show_realistic_flash(): the full-screen window is created, then the photo
\* is loaded; when Image.open raises, the callback ends there and the window
\* stays, else fade(0) runs and schedules fade(1)
show_realistic_flash ==
    /\ Running
    /\ glitch.flash_due
    /\ FreeEffectIds # {}
    /\ glitch' = [glitch EXCEPT !.flash_due = FALSE]
    /\ \/ effects' = effects \cup {EffectWindow("flash", 1, TRUE)}
       \/ /\ RoomForLeftWindow
          /\ effects' = effects \cup {EffectWindow("flash", 0, FALSE)}
    /\ UNCHANGED outside_effects

\* fade(i) of the photo flash: the window is destroyed after twice FADE_STEPS
fade ==
    /\ Running
    /\ \E w \in effects :
          /\ w.kind = "flash"
          /\ w.closer
          /\ IF w.i <= 2 * FADE_STEPS
             THEN effects' = (effects \ {w}) \cup {[w EXCEPT !.i = w.i + 1]}
             ELSE effects' = effects \ {w}
    /\ UNCHANGED << glitch, outside_effects >>

\* flicker_step(i) of show_image_glitch
flicker_step ==
    /\ Running
    /\ \E w \in effects :
          /\ w.kind = "image"
          /\ w.i <= FLICKER_TIMES
          /\ effects' = (effects \ {w}) \cup {[w EXCEPT !.i = w.i + 1]}
    /\ UNCHANGED << glitch, outside_effects >>

\* a timer of show_image_glitch destroys its window: the one set with the
\* black canvas, the one set by the last flicker_step, or the clean-up set
\* with the picture
image_glitch_destroy ==
    /\ Running
    /\ \E w \in effects :
          /\ w.kind \in {"fallback", "image"}
          /\ effects' = effects \ {w}
    /\ UNCHANGED << glitch, outside_effects >>

\* the glitch and its effects
NextGlitch ==
    \/ glitch_loop
    \/ shake
    \/ flicker
    \/ static_overlay_retry
    \/ canvas_destroy
    \/ show_realistic_flash
    \/ fade
    \/ flicker_step
    \/ image_glitch_destroy

\* ---------------------------------------------------------------- panic key
PanicFrames == { k \in 1..Len(stack) : stack[k].fn = "panic_exit" }

\* Control-Shift-K, bound with bind_all: panic_exit shows the "Killed" message
\* box and waits for it; where the box cannot be shown the exception is
\* swallowed and os._exit(0) follows at once.  The key is pressed once.
PanicKey ==
    /\ Running
    /\ PanicFrames = {}
    /\ \/ /\ stack' = Append(stack, Frame("panic_exit", "killed"))
          /\ focus' = DialogWindow(Len(stack'))
          /\ UNCHANGED << proc, exit_code >>
       \/ /\ proc' = "exited"
          /\ exit_code' = 0
          /\ UNCHANGED << stack, focus >>
    /\ UNCHANGED << code_vars, shown, failures, notepad_vars, effect_vars, attempts, overlay_vars, deiconify_timers,
                    win_state, unmap_events, n_close, n_min, reset_from >>

\* showinfo("Killed") returns and panic_exit returns with it
KilledDismissed_returns ==
    /\ Running
    /\ stack # << >>
    /\ Top.fn = "panic_exit"
    /\ Top.pc = "killed"
    /\ stack' = Pop
    /\ focus' = RootWindow
    /\ UNCHANGED << attempts, overlay_vars, deiconify_timers, win_state, unmap_events,
                    n_close, n_min, reset_from, process_vars >>

\* showinfo("Killed") returns: os._exit(0)
KilledDismissed ==
    /\ Running
    /\ stack # << >>
    /\ Top.fn = "panic_exit"
    /\ Top.pc = "killed"
    /\ proc' = "exited"
    /\ exit_code' = 0
    /\ UNCHANGED << code_vars, shown, failures, notepad_vars, effect_vars, attempts, overlay_vars, deiconify_timers,
                    win_state, unmap_events, focus, stack, n_close, n_min, reset_from >>

\* ------------------------------------------------------------ specification
\* the window state run_app builds before it enters root.mainloop()
WindowBuilt ==
    /\ attempts = 0
    /\ overlay_open = FALSE
    /\ active_overlay = NoWindow
    /\ overlays = {}
    /\ finish_timers = {}
    /\ deiconify_timers = 0
    /\ win_state = "normal"
    /\ unmap_events = 0
    /\ focus = RootWindow
    /\ stack = << >>
    /\ active_notepad = 0

NoHistory ==
    /\ notepads = << >>
    /\ lookup = NoLookup
    /\ glitch = NoGlitch
    /\ effects = {}
    /\ shown = [clue |-> {}, trivia |-> {}, n |-> 0]
    /\ failures = 0
    /\ n_close = 0
    /\ n_min = 0
    /\ n_opened = 0
    /\ reset_from = 0

\* the state in which run_app enters root.mainloop(), for the outcomes ns of
\* random.randint and shuffles of random.shuffle
InitWith(ns, shuffles) ==
    /\ proc = "running"
    /\ exit_code = -1
    /\ drawn \in ns
    /\ SECRET_CODE = Format04d(drawn)
    /\ \E p \in shuffles : helpers = SecretHelpers(SECRET_CODE, p)
    /\ WindowBuilt
    /\ NoHistory

Init == InitWith(SecretValues, SomeShuffles)

\* the module is imported: SECRET_CODE = new_secret_code() has run, run_app has
\* not, and there is no window yet
Imported ==
    /\ proc = "imported"
    /\ exit_code = -1
    /\ drawn \in SecretValues
    /\ SECRET_CODE = Format04d(drawn)
    /\ helpers = [secret |-> << >>, clue_positions |-> << >>, trivia_positions |-> << >>]
    /\ attempts = 0
    /\ overlay_open = FALSE
    /\ active_overlay = NoWindow
    /\ overlays = {}
    /\ finish_timers = {}
    /\ deiconify_timers = 0
    /\ win_state = "withdrawn"
    /\ unmap_events = 0
    /\ focus = NoWindow
    /\ stack = << >>
    /\ active_notepad = 0
    /\ NoHistory

\* run_app up to root.mainloop(): the code is drawn again, the helpers are
\* built from it and the window is shown
run_app ==
    /\ proc = "imported"
    /\ proc' = "running"
    /\ drawn' \in 0..MAX_CODE_VALUE
    /\ SECRET_CODE' = Format04d(drawn')
    /\ \E p \in SomeShuffles : helpers' = SecretHelpers(SECRET_CODE', p)
    /\ win_state' = "normal"
    /\ focus' = RootWindow
    /\ UNCHANGED << exit_code, shown, failures, notepad_vars, effect_vars, attempts, overlay_vars,
                    deiconify_timers, unmap_events, stack, n_close, n_min, reset_from >>

\* the start of the application for every outcome of random.randint(0, 9999)
StartSpec == Imported /\ [][run_app]_vars

\* the close/minimize guard: the user tries to close or minimize, timers fire
Next ==
    \/ on_close_attempt
    \/ Minimize
    \/ on_unmap
    \/ deiconify
    \/ WarningDismissed
    \/ OverlayExpires

Spec == Init /\ [][Next]_vars

\* The event loop dispatches every queued event and every due timer, also from
\* the nested loop of a modal dialog.
FairSpec == Spec /\ WF_vars(on_unmap) /\ WF_vars(deiconify)
\* the window guard, the timer of an overlay firing when it is due
ExpirySpec == Spec /\ WF_vars(OverlayExpires)

\* the emergency quiz: the user presses Emergency and answers the dialogs
NextEmergency ==
    \/ EmergencyClick
    \/ EmergencyConfirm
    \/ EmergencyAnswer
    \/ PerfectDismissed
    \/ CodeEntered
    \/ UnlockedDismissed
    \/ WrongDismissed
    \/ ResultDismissed

EmergencySpec == Init /\ [][NextEmergency]_vars

\* the location lookup for every combination of answers of the services
LookupSpec == InitWith({4821}, SomeShuffles) /\ [][Lookup]_vars

\* the glitches alone
GlitchSpec == InitWith({4821}, SomeShuffles) /\ [][NextGlitch]_vars
\* the glitches alone, no timer waiting for ever
GlitchFairSpec ==
    /\ GlitchSpec
    /\ WF_vars(glitch_loop) /\ WF_vars(shake) /\ WF_vars(flicker)
    /\ WF_vars(static_overlay_retry) /\ WF_vars(canvas_destroy)
    /\ WF_vars(show_realistic_flash) /\ WF_vars(fade) /\ WF_vars(flicker_step)
    /\ WF_vars(image_glitch_destroy)

\* the helpers: the user presses Clue Finder or Trivia Helper and answers
NextHelpers ==
    \/ ClueClick
    \/ ClueDismissed
    \/ TriviaClick
    \/ TriviaAnswer
    \/ TriviaDismissed

\* the helpers for every outcome of the shuffle
HelpersSpec == InitWith(SecretValues, AllShuffles) /\ [][NextHelpers]_vars

\* the two quizzes and the clue finder, one after the other
NextQuiz == NextHelpers \/ NextEmergency

QuizSpec == InitWith({4821}, SomeShuffles) /\ [][NextQuiz]_vars

\* the Yes flow: the user presses Yes, answers, and the notepad types
NextYes ==
    \/ YesClick
    \/ YesConfirm
    \/ TypingFinished
    \/ inert_close
    \/ LockedDismissed
\* the Yes flow and the notepads alone
YesSpec == InitWith({4821}, SomeShuffles) /\ [][NextYes]_vars

\* nothing of the window guard has happened yet
GuardUntouched ==
    /\ n_close = 0
    /\ n_min = 0
    /\ unmap_events = 0
    /\ win_state = "normal"
\* nothing of the emergency quiz has happened yet
EmergencyUntouched ==
    /\ failures = 0
    /\ \A k \in 1..Len(stack) : stack[k].fn # "emergency_quiz_flow"
\* nothing of the Yes flow has happened yet
YesUntouched ==
    /\ notepads = << >>
    /\ \A k \in 1..Len(stack) : stack[k].fn # "yes_flow"

\* the whole application, the user staying with one feature in a run (the
\* window guard, the emergency quiz or the Yes flow) and pressing the panic
\* key at any point
NextApp ==
    \/ (EmergencyUntouched /\ YesUntouched /\ on_close_attempt)
    \/ (EmergencyUntouched /\ YesUntouched /\ Minimize)
    \/ (EmergencyUntouched /\ YesUntouched /\ on_unmap)
    \/ (EmergencyUntouched /\ YesUntouched /\ deiconify)
    \/ (EmergencyUntouched /\ YesUntouched /\ WarningDismissed)
    \/ (EmergencyUntouched /\ YesUntouched /\ OverlayExpires)
    \/ (GuardUntouched /\ YesUntouched /\ EmergencyClick)
    \/ (GuardUntouched /\ YesUntouched /\ EmergencyConfirm)
    \/ (GuardUntouched /\ YesUntouched /\ EmergencyAnswer)
    \/ (GuardUntouched /\ YesUntouched /\ PerfectDismissed)
    \/ (GuardUntouched /\ YesUntouched /\ CodeEntered)
    \/ (GuardUntouched /\ YesUntouched /\ UnlockedDismissed)
    \/ (GuardUntouched /\ YesUntouched /\ WrongDismissed)
    \/ (GuardUntouched /\ YesUntouched /\ ResultDismissed)
    \/ (GuardUntouched /\ EmergencyUntouched /\ YesClick)
    \/ (GuardUntouched /\ EmergencyUntouched /\ YesConfirm)
    \/ (GuardUntouched /\ EmergencyUntouched /\ TypingFinished)
    \/ PanicKey
    \/ KilledDismissed

AppSpec == InitWith({4821}, SomeShuffles) /\ [][NextApp]_vars

\* the window guard has never acted
GuardNeverUsed ==
    /\ GuardUntouched
    /\ attempts = 0
    /\ reset_from = 0
    /\ ~overlay_open
    /\ \A k \in 1..Len(stack) : stack[k].fn \notin {"on_close_attempt", "on_unmap"}
\* nothing of the helpers has happened yet
HelpersUntouched ==
    /\ shown.n = 0
    /\ \A k \in 1..Len(stack) : stack[k].fn \notin {"clue_finder", "trivia_helper"}
\* no popup of No, of Help or of the focus watcher is open
PopupsUntouched ==
    \A k \in 1..Len(stack) : stack[k].fn \notin {"no_flow", "help", "enforce_focus"}
\* the glitch animation has not gone beyond its first step
AnimationUntouched ==
    /\ effects = {}
    /\ [glitch EXCEPT !.last = NeverCalled] \in
          {NoGlitch, [NoGlitch EXCEPT !.phase = "shake", !.i = 1, !.moved = TRUE]}
\* the user stays with the window guard and the focus
GuardOnly ==
    /\ EmergencyUntouched /\ YesUntouched /\ HelpersUntouched /\ AnimationUntouched
    /\ \A k \in 1..Len(stack) : stack[k].fn \notin {"no_flow", "help"}
\* the user stays with the emergency quiz
EmergencyOnly ==
    /\ GuardNeverUsed /\ YesUntouched /\ HelpersUntouched /\ PopupsUntouched
    /\ AnimationUntouched
\* the user stays with the Yes flow and the notepads
YesOnly ==
    /\ GuardNeverUsed /\ EmergencyUntouched /\ HelpersUntouched /\ PopupsUntouched
    /\ AnimationUntouched
\* the user stays with the clue finder and the trivia helper
HelpersOnly ==
    /\ GuardNeverUsed /\ EmergencyUntouched /\ YesUntouched /\ PopupsUntouched
    /\ AnimationUntouched
\* the user stays with No and Help
PopupsOnly ==
    /\ GuardNeverUsed /\ EmergencyUntouched /\ YesUntouched /\ HelpersUntouched
    /\ AnimationUntouched
    /\ \A k \in 1..Len(stack) : stack[k].fn # "enforce_focus"
\* the user does nothing while the glitch is animated
AnimationOnly ==
    /\ GuardNeverUsed /\ EmergencyUntouched /\ YesUntouched /\ HelpersUntouched
    /\ PopupsUntouched

\* every handler that runs while the program stays up, the user staying with
\* one feature in a run; the timer of glitch_loop fires at any point, and the
\* animation it starts is followed further when the user does nothing else
NextHandlers ==
    \/ (GuardOnly /\ on_close_attempt)
    \/ (GuardOnly /\ Minimize)
    \/ (GuardOnly /\ on_unmap)
    \/ (GuardOnly /\ deiconify)
    \/ (GuardOnly /\ WarningDismissed)
    \/ (GuardOnly /\ OverlayExpires)
    \/ (GuardOnly /\ FocusLost)
    \/ (GuardOnly /\ enforce_focus)
    \/ (GuardOnly /\ HahaDismissed)
    \/ (EmergencyOnly /\ EmergencyClick)
    \/ (EmergencyOnly /\ EmergencyConfirm)
    \/ (EmergencyOnly /\ EmergencyAnswer)
    \/ (EmergencyOnly /\ PerfectDismissed)
    \/ (EmergencyOnly /\ CodeEntered)
    \/ (EmergencyOnly /\ UnlockedDismissed)
    \/ (EmergencyOnly /\ WrongDismissed)
    \/ (EmergencyOnly /\ ResultDismissed)
    \/ (YesOnly /\ YesClick)
    \/ (YesOnly /\ YesConfirm)
    \/ (YesOnly /\ TypingFinished)
    \/ (YesOnly /\ inert_close)
    \/ (YesOnly /\ LockedDismissed)
    \/ (HelpersOnly /\ ClueClick)
    \/ (HelpersOnly /\ ClueDismissed)
    \/ (HelpersOnly /\ TriviaClick)
    \/ (HelpersOnly /\ TriviaAnswer)
    \/ (HelpersOnly /\ TriviaDismissed)
    \/ (PopupsOnly /\ NoClick)
    \/ (PopupsOnly /\ HelpClick)
    \/ (PopupsOnly /\ InfoDismissed)
    \/ glitch_loop
    \/ (AnimationOnly /\ shake)
    \/ (AnimationOnly /\ flicker)
    \/ (AnimationOnly /\ static_overlay_retry)
    \/ (AnimationOnly /\ canvas_destroy)
    \/ (AnimationOnly /\ show_realistic_flash)
    \/ (AnimationOnly /\ fade)
    \/ (AnimationOnly /\ flicker_step)
    \/ (AnimationOnly /\ image_glitch_destroy)

HandlersSpec == InitWith({4821}, SomeShuffles) /\ [][NextHandlers]_vars

\* ================================================================== claims
\* steps of the model, recognised from the two states of the step
CloseAttempt == on_close_attempt
MinimizeAttempt == on_unmap /\ win_state = "iconic"
Attempt == CloseAttempt \/ MinimizeAttempt
ExpiryStep == finish_timers' # finish_timers /\ finish_timers' \subseteq finish_timers
WarningReturns == stack # << >> /\ Top.pc = "warning" /\ stack' = Pop
OverlayUntouched == UNCHANGED << overlay_open, active_overlay, overlays, finish_timers >>

\* C1: at most one overlay window exists in every reachable state, and a close
\* or minimize attempt made while overlay_open is true creates no overlay and
\* gives the focus to the existing one.
C1_AtMostOneOverlay ==
    /\ [](Cardinality(overlays) <= 1)
    /\ [][(Attempt /\ overlay_open) =>
            (OverlayUntouched /\ focus' = active_overlay /\ WindowExists(active_overlay))]_vars

C1_Witness ==
    /\ overlay_open
    /\ attempts >= 3
    /\ n_opened = 1
    /\ overlays = {1}
    /\ focus = active_overlay

\* C2: an attempt made when attempts is 0 (the first one, and the first one after
\* an overlay expiry) only opens the warning: no overlay is created and no
\* overlay state changes; when the warning returns the focus goes to the main
\* window.
C2_FirstAttemptWarnsOnly ==
    /\ [][(Attempt /\ attempts = 0) =>
            /\ OverlayUntouched
            /\ Len(stack') = Len(stack) + 1
            /\ stack'[Len(stack')].pc = "warning"]_vars
    /\ [][WarningReturns => focus' = RootWindow]_vars

C2_Witness ==
    /\ reset_from >= 2
    /\ attempts = 1
    /\ n_close + n_min = 1
    /\ stack = << >>
    /\ overlays = {}
    /\ ~overlay_open
    /\ focus = RootWindow

\* C3: an attempt made when attempts >= 1 and no overlay is open creates exactly
\* one overlay, sets overlay_open and records the new overlay as active_overlay.
C3_LaterAttemptOpensOverlay ==
    [][(Attempt /\ attempts >= 1 /\ ~overlay_open) =>
         /\ overlay_open'
         /\ overlays \subseteq overlays'
         /\ Cardinality(overlays' \ overlays) = 1
         /\ \A k \in overlays' \ overlays :
               /\ active_overlay' = OverlayWindow(k)
               /\ Cardinality({ t \in finish_timers' : t.overlay = k }) = 1]_vars

C3_Witness ==
    /\ attempts = 2
    /\ overlay_open
    /\ n_opened = 1
    /\ active_overlay = OverlayWindow(1)
    /\ overlays = {1}

\* C4: the step in which an overlay's timer expires destroys that overlay, sets
\* overlay_open to false, clears active_overlay and sets attempts to 0, whatever
\* attempts was.
C4_ExpiryResets ==
    [][ExpiryStep =>
         /\ \E t \in finish_timers \ finish_timers' :
               /\ finish_timers' = finish_timers \ {t}
               /\ overlays' = overlays \ {t.overlay}
               /\ t.overlay \in overlays
         /\ overlay_open' = FALSE
         /\ active_overlay' = NoWindow
         /\ attempts' = 0]_vars

C4_Witness ==
    /\ reset_from >= 3
    /\ n_close = 0 /\ n_min = 0
    /\ attempts = 0
    /\ ~overlay_open
    /\ active_overlay = NoWindow
    /\ overlays = {}

\* C5 as stated: after [close, close, close] without an expiry one overlay has
\* been opened and attempts is 2.
C5_Original ==
    (n_close = 3 /\ n_min = 0) => (n_opened = 1 /\ overlay_open /\ attempts = 2)

\* C5 amended: after k closes without an expiry (and no minimize) attempts is k;
\* the overlay is opened exactly once, by the 2nd close; the 3rd close gives the
\* focus to that same overlay and makes attempts 3; only expiry resets it to 0.
C5_ThreeCloses ==
    /\ []((n_min = 0 /\ n_close \in 1..3) =>
            /\ attempts = n_close
            /\ n_opened = (IF n_close >= 2 THEN 1 ELSE 0)
            /\ overlay_open = (n_close >= 2))
    /\ [][(CloseAttempt /\ n_close = 2 /\ n_min = 0) =>
            (OverlayUntouched /\ focus' = active_overlay /\ attempts' = 3)]_vars
    /\ [][(n_min = 0 /\ n_close = 3 /\ ~Attempt) =>
            (attempts' = 3 \/ (ExpiryStep /\ attempts' = 0))]_vars

C5_Witness ==
    /\ n_close = 3
    /\ n_min = 0
    /\ attempts = 3
    /\ overlay_open
    /\ n_opened = 1
    /\ focus = active_overlay

\* C6: attempts starts at 0, every close or minimize attempt raises it by exactly
\* one, with or without an open overlay, nothing else raises it, and it is lowered
\* only by the reset to 0 of an overlay expiry.
C6_AttemptCounter ==
    /\ attempts = 0
    /\ [][/\ Attempt => attempts' = attempts + 1
          /\ attempts' > attempts => (attempts' = attempts + 1 /\ n_close' + n_min' = n_close + n_min + 1)
          /\ attempts' < attempts => (ExpiryStep /\ attempts' = 0)]_vars

C6_Witness ==
    /\ reset_from >= 2
    /\ attempts = 3
    /\ n_close >= 1
    /\ n_min >= 1
    /\ overlay_open

\* the outcome of an attempt, as far as the counter, the overlay and the warning go
SameOutcome(a, oo, ao, ov, w) ==
    /\ attempts' = a
    /\ overlay_open' = oo
    /\ active_overlay' = ao
    /\ overlays' = ov
    /\ w = (Len(stack') > Len(stack) /\ stack'[Len(stack')].pc = "warning")

\* C7: in every state in which the window is iconic with its <Unmap> event
\* queued, handling the event and handling a close-button attempt lead to the
\* same attempts, overlay_open, active_overlay and overlays, and both or neither
\* open the warning.
C7_MinimizeLikeClose ==
    (Running /\ win_state = "iconic" /\ unmap_events > 0 /\ RoomForAttempt /\ RoomForDialog) =>
        \A a \in {attempts, attempts + 1, attempts + 2}, oo \in BOOLEAN, w \in BOOLEAN,
           ao \in {NoWindow} \cup { OverlayWindow(k) : k \in OverlayIds },
           ov \in SUBSET OverlayIds :
              (ENABLED (on_close_attempt /\ SameOutcome(a, oo, ao, ov, w)))
                  = (ENABLED (on_unmap /\ SameOutcome(a, oo, ao, ov, w)))

C7_Witness ==
    /\ n_min = 2
    /\ n_close = 0
    /\ attempts = 2
    /\ overlay_open
    /\ reset_from >= 2

\* C8 as stated: while the window is iconic its minimize attempt has not been
\* counted yet (the <Unmap> event is still queued).
C8_Original == (win_state = "iconic") => (unmap_events > 0)

\* C8 amended: on_unmap counts the attempt first and only schedules the restore:
\* its step raises attempts, leaves the window iconic and adds one deiconify
\* timer; a window that is iconic with its event handled has a restore pending,
\* and the restore happens only after the attempt was counted.
C8_CountThenRestore ==
    /\ [][MinimizeAttempt =>
            /\ attempts' = attempts + 1
            /\ win_state' = "iconic"
            /\ deiconify_timers' = deiconify_timers + 1]_vars
    /\ []((win_state = "iconic" /\ unmap_events = 0) => deiconify_timers > 0)
    /\ [][(win_state = "iconic" /\ win_state' = "normal") => unmap_events = 0]_vars

C8_Witness ==
    /\ win_state = "iconic"
    /\ unmap_events = 0
    /\ n_min >= 1
    /\ attempts >= 1
    /\ deiconify_timers = 1

\* C9: whenever the main window is iconic it is eventually normal again.
C9_NeverStaysMinimized == (win_state = "iconic") ~> (win_state = "normal")

C9_Witness ==
    /\ win_state = "normal"
    /\ deiconify_timers = 0
    /\ n_min >= 2
    /\ overlay_open
    /\ stack # << >>

\* the entry c, with surrounding whitespace removed, is the secret code
TrimmedIsSecret(c) ==
    /\ ~c.none
    /\ \E l, r \in 0..Len(c.str) :
          /\ l + r <= Len(c.str)
          /\ \A k \in 1..l : c.str[k] \in Whitespace
          /\ \A k \in (Len(c.str) - r + 1)..Len(c.str) : c.str[k] \in Whitespace
          /\ SubSeq(c.str, l + 1, Len(c.str) - r) = SECRET_CODE

EmergencyFrames == { stack[k] : k \in { j \in 1..Len(stack) : stack[j].fn = "emergency_quiz_flow" } }

\* C10 as stated: the unlock is reached exactly when the entry equals SECRET_CODE
\* character for character.
C10_Original ==
    \A f \in EmergencyFrames :
       /\ f.pc = "unlocked" => (~f.code.none /\ f.code.str = SECRET_CODE)
       /\ f.pc = "wrong" => (f.code.none \/ f.code.str # SECRET_CODE)

\* C10 amended: the unlock is reached exactly when the entry, with surrounding
\* whitespace removed, equals SECRET_CODE; a cancelled, empty or blank entry is
\* rejected; the process exits (code 0) only out of the unlock.
C10_UnlockIffTrimmedMatch ==
    /\ \A f \in EmergencyFrames :
          /\ f.pc = "unlocked" => TrimmedIsSecret(f.code)
          /\ f.pc = "wrong" => ~TrimmedIsSecret(f.code)
          /\ (f.code.none \/ \A k \in 1..Len(f.code.str) : f.code.str[k] \in Whitespace)
                => f.pc # "unlocked"
    /\ proc = "exited" => (exit_code = 0 /\ stack # << >> /\ Top.pc = "unlocked")

C10_Witness ==
    /\ proc = "exited"
    /\ exit_code = 0
    /\ Top.pc = "unlocked"
    /\ Top.code.str # SECRET_CODE
    /\ Len(Top.code.str) = 6

\* the positions of emergency_quiz_flow from the code prompt onwards
CodePromptReached == {"entercode", "unlocked", "wrong"}

\* C11: the emergency flow reaches the code prompt exactly when all 10 answers
\* were correct; with fewer it shows wrong = 10 - correct, never asks for the
\* code, and dismissing the result ends the flow with the process running.
C11_CodePromptIffAllCorrect ==
    /\ [](\A f \in EmergencyFrames :
            /\ f.pc \in CodePromptReached \cup {"perfect"}
                  => (f.i = 10 /\ f.correct = 10 /\ f.wrong = 0)
            /\ (f.i = 10 /\ f.correct = 10) => f.pc \in CodePromptReached \cup {"perfect"}
            /\ f.pc = "result"
                  => (f.i = 10 /\ f.correct < 10 /\ f.wrong = 10 - f.correct /\ f.wrong > 0)
            /\ f.pc \notin CodePromptReached => f.code.none)
    /\ [][(stack # << >> /\ Top.fn = "emergency_quiz_flow" /\ Top.pc = "result"
             /\ stack' # stack)
            => (stack' = Pop /\ EmergencyFrames' = {} /\ proc' = "running")]_vars

\* a run with 7 correct answers was reported, and a later run with 10 correct
\* answers is at the code prompt
C11_Witness ==
    /\ failures >= 1
    /\ stack # << >>
    /\ Top.fn = "emergency_quiz_flow"
    /\ Top.pc = "entercode"
    /\ Top.correct = 10

\* C12: the process ends only by the panic key or by the unlock after a code
\* entry that matches, both with exit code 0; close, minimize, a failed quiz, a
\* wrong code, an overlay that expires and a failed location lookup leave it
\* running.
C12_ExitOnlyByPanicOrUnlock ==
    /\ [](/\ proc \in {"running", "exited"}
          /\ proc = "exited" <=> exit_code = 0
          /\ proc = "running" <=> exit_code = -1)
    /\ [][proc' # proc =>
            \/ PanicKey
            \/ KilledDismissed
            \/ (UnlockedDismissed /\ TrimmedIsSecret(Top.code))]_vars
    /\ [][(\/ on_close_attempt \/ Minimize \/ on_unmap \/ deiconify \/ WarningDismissed
            \/ OverlayExpires \/ WrongDismissed \/ ResultDismissed \/ YesConfirm)
            => proc' = "running"]_vars

\* the process has ended by the panic key after close and minimize attempts and
\* an overlay that expired
C12_Witness ==
    /\ proc = "exited"
    /\ exit_code = 0
    /\ PanicFrames # {}
    /\ n_close >= 1
    /\ n_min >= 1
    /\ reset_from >= 1

\* C13 as stated: once the panic key is handled the process has ended, with no
\* further user action.
C13_Original == PanicFrames # {} => proc = "exited"

\* C13: the panic key is handled in every state of the running application; it
\* ends the process with code 0 at once where the "Killed" box cannot be shown,
\* and otherwise as soon as that box returns, whatever else is open; until
\* then panic_exit stays pending and no other event cancels it.
C13_PanicExitsWhenBoxReturns ==
    /\ []((Running /\ PanicFrames = {}) => ENABLED PanicKey)
    /\ []((Running /\ stack # << >> /\ Top.fn = "panic_exit") => ENABLED KilledDismissed)
    /\ [][PanicKey => \/ (proc' = "exited" /\ exit_code' = 0)
                      \/ (PanicFrames' # {} /\ Top'.fn = "panic_exit")]_vars
    /\ [][PanicFrames # {} =>
            \/ (proc' = "exited" /\ exit_code' = 0)
            \/ (proc' = "running" /\ PanicFrames' = PanicFrames)]_vars
    /\ [][(stack # << >> /\ Top.fn = "panic_exit" /\ stack' # stack) =>
            Len(stack') > Len(stack)]_vars

\* the key was pressed with the emergency quiz in progress, and the process has
\* ended when the "Killed" box returned
C13_Witness ==
    /\ proc = "exited"
    /\ exit_code = 0
    /\ Len(stack) = 2
    /\ stack[1].fn = "emergency_quiz_flow"
    /\ stack[1].pc = "quiz"
    /\ stack[2].fn = "panic_exit"

\* the digits a pattern shows are those of SECRET_CODE at their places
ShowsDigitsOfCode(p) ==
    \A k \in 1..Len(p) : p[k] # "*" => p[k] = SECRET_CODE[k]

\* C14: SECRET_CODE never changes once the application runs, and the code the
\* emergency check compares with, the code the helpers hold and the digits the
\* Clue Finder and the Trivia Helper have shown are all that one value.
C14_SecretCodeImmutable ==
    /\ [][SECRET_CODE' = SECRET_CODE]_vars
    /\ [](/\ helpers.secret = SECRET_CODE
          /\ \A f \in EmergencyFrames : f.secret_code = SECRET_CODE
          /\ \A p \in shown.clue \cup shown.trivia : ShowsDigitsOfCode(p))

\* both helpers have shown their digits and the emergency check has accepted
\* the code
C14_Witness ==
    /\ shown.clue # {}
    /\ shown.trivia # {}
    /\ stack # << >>
    /\ Top.fn = "emergency_quiz_flow"
    /\ Top.pc = "unlocked"
    /\ Top.secret_code = SECRET_CODE

\* the number a string of decimal digits stands for
DigitOf(c) == (CHOOSE k \in 1..Len(DigitChars) : DigitChars[k] = c) - 1
RECURSIVE DigitsValue(_)
DigitsValue(s) ==
    IF s = << >> THEN 0
    ELSE 10 * DigitsValue(SubSeq(s, 1, Len(s) - 1)) + DigitOf(s[Len(s)])

\* C15: for every number 0..9999 that is drawn, SECRET_CODE is a string of
\* exactly 4 decimal digits that stands for that number, zeros on the left.
C15_FourDigits ==
    /\ Len(SECRET_CODE) = 4
    /\ \A k \in 1..Len(SECRET_CODE) : SECRET_CODE[k] \in Range(DigitChars)
    /\ DigitsValue(SECRET_CODE) = drawn
    /\ drawn \in 0..9999

\* run_app has drawn 7 and the code is 0007
C15_Witness ==
    /\ proc = "running"
    /\ drawn = 7
    /\ SECRET_CODE = << "0", "0", "0", "7" >>

\* C16: for every outcome of the shuffle the clue positions and the trivia
\* positions have 2 elements each, share none, together are {0,1,2,3}, and
\* stay as they were built.
C16_PositionsPartition ==
    /\ [](/\ Len(helpers.clue_positions) = 2
          /\ Len(helpers.trivia_positions) = 2
          /\ Cardinality(Range(helpers.clue_positions)) = 2
          /\ Cardinality(Range(helpers.trivia_positions)) = 2
          /\ Range(helpers.clue_positions) \cap Range(helpers.trivia_positions) = {}
          /\ Range(helpers.clue_positions) \cup Range(helpers.trivia_positions) = 0..3)
    /\ [][/\ helpers'.clue_positions = helpers.clue_positions
           /\ helpers'.trivia_positions = helpers.trivia_positions]_vars

\* the shuffle gave the clue positions [1, 2], and both helpers have been used
C16_Witness ==
    /\ helpers.clue_positions = << 1, 2 >>
    /\ helpers.trivia_positions = << 0, 3 >>
    /\ shown.clue # {}
    /\ shown.trivia # {}

\* p has 4 characters: the digit of SECRET_CODE at the listed positions, '*'
\* at the others
IsPattern(p, positions) ==
    /\ Len(p) = 4
    /\ \A k \in 0..3 :
          p[k + 1] = IF k \in Range(positions) THEN SECRET_CODE[k + 1] ELSE "*"

\* C17: a pattern shown has 4 characters, the digit of SECRET_CODE at each clue
\* position (Clue Finder) or trivia position (Trivia Helper) and '*' elsewhere;
\* every call shows the same pattern; 4821 with clue positions [0,3] gives
\* 4**1 and *82*.
C17_RevealPattern ==
    /\ \A k \in 1..Len(stack) :
          /\ stack[k].fn = "clue_finder"
                => IsPattern(stack[k].pattern, helpers.clue_positions)
          /\ (stack[k].fn = "trivia_helper" /\ stack[k].pc = "passed")
                => IsPattern(stack[k].pattern, helpers.trivia_positions)
    /\ \A p \in shown.clue : IsPattern(p, helpers.clue_positions)
    /\ \A p \in shown.trivia : IsPattern(p, helpers.trivia_positions)
    /\ Cardinality(shown.clue) <= 1
    /\ Cardinality(shown.trivia) <= 1
    /\ (SECRET_CODE = << "4", "8", "2", "1" >> /\ helpers.clue_positions = << 0, 3 >>)
          => /\ shown.clue \subseteq { << "4", "*", "*", "1" >> }
             /\ shown.trivia \subseteq { << "*", "8", "2", "*" >> }

\* 4821 with clue positions [0,3]: three patterns have been shown, so one
\* helper has shown its pattern twice, and they are 4**1 and *82*
C17_Witness ==
    /\ SECRET_CODE = << "4", "8", "2", "1" >>
    /\ helpers.clue_positions = << 0, 3 >>
    /\ shown.n = 3
    /\ shown.clue = { << "4", "*", "*", "1" >> }
    /\ shown.trivia = { << "*", "8", "2", "*" >> }

TriviaFrames == { stack[k] : k \in { j \in 1..Len(stack) : stack[j].fn = "trivia_helper" } }

\* C18: in the Trivia Helper correct stays within 0..5; the pattern of the
\* trivia positions is shown exactly when all 5 answers were correct, and with
\* fewer only the score is shown, with no pattern.
C18_TriviaRevealIffAllCorrect ==
    /\ [](\A f \in TriviaFrames :
            /\ f.correct \in 0..5
            /\ f.correct <= f.i
            /\ f.i <= 5
            /\ f.pc = "passed" <=> (f.i = 5 /\ f.correct = 5)
            /\ f.pc = "score" <=> (f.i = 5 /\ f.correct < 5)
            /\ f.pc = "passed" => IsPattern(f.pattern, helpers.trivia_positions)
            /\ f.pc # "passed" => f.pattern = << >>)
    /\ [][shown.trivia' # shown.trivia =>
            (Top'.fn = "trivia_helper" /\ Top'.pc = "passed" /\ Top'.correct = 5)]_vars
    /\ [][(stack # << >> /\ Top.fn = "trivia_helper" /\ Top.pc = "score")
            => shown' = shown]_vars

\* a run with 4 correct answers shows the score and no pattern; no trivia
\* pattern has been shown so far
C18_Witness ==
    /\ stack # << >>
    /\ Top.fn = "trivia_helper"
    /\ Top.pc = "score"
    /\ Top.correct = 4
    /\ Top.pattern = << >>
    /\ shown.trivia = {}

\* two characters that are the same letter in either case, or the same character
SameLetter(c, d) ==
    \/ c = d
    \/ \E k \in 1..Len(UpperChars) : {c, d} = {UpperChars[k], LowerChars[k]}

\* ans, without the whitespace around it, is a letter for letter in either case
Matches(ans, a) ==
    /\ ~ans.none
    /\ \E l \in 0..(Len(ans.str) - Len(a)) :
          /\ \A k \in 1..l : ans.str[k] \in Whitespace
          /\ \A k \in (l + Len(a) + 1)..Len(ans.str) : ans.str[k] \in Whitespace
          /\ \A k \in 1..Len(a) : SameLetter(ans.str[l + k], a[k])

\* ans is cancelled, empty or only whitespace
Blank(ans) == ans.none \/ \A k \in 1..Len(ans.str) : ans.str[k] \in Whitespace

\* a step in which the quiz of fn takes one answer
AnswerStep(fn) ==
    /\ stack # << >>
    /\ Top.fn = fn
    /\ Top.pc = "quiz"
    /\ Len(stack') = Len(stack)
    /\ Top'.i = Top.i + 1

\* the answer just taken was counted exactly when it matches a
Counted(a) ==
    /\ Top'.correct = Top.correct + (IF Matches(Top'.ans, a) THEN 1 ELSE 0)
    /\ Blank(Top'.ans) => Top'.correct = Top.correct

\* C19: in both quizzes an answer is counted as correct exactly when it equals
\* the expected answer after its surrounding whitespace is trimmed and case is
\* ignored; a blank, whitespace-only or cancelled answer is taken, counts as
\* incorrect, and the quiz goes on.
C19_AnswerMatching ==
    /\ [][AnswerStep("emergency_quiz_flow")
            => Counted(EmergencyAnswers[Top.picks[Top.i + 1]])]_vars
    /\ [][AnswerStep("trivia_helper")
            => Counted(TriviaAnswers[Top.picks[Top.i + 1]])]_vars
    /\ [](InEmergency("quiz") =>
            /\ ENABLED EmergencyAnswered(None)
            /\ ENABLED EmergencyAnswered(Str(<< >>))
            /\ ENABLED EmergencyAnswered(Str(<< " ", "\t", "\n" >>)))
    /\ [](InHelper("trivia_helper", {"quiz"}) =>
            /\ ENABLED TriviaAnswered(None)
            /\ ENABLED TriviaAnswered(Str(<< >>))
            /\ ENABLED TriviaAnswered(Str(<< " ", "\t", "\n" >>)))

\* the trivia has just counted an answer typed in capitals, as it counted every
\* answer before it
C19_Witness ==
    /\ stack # << >>
    /\ Top.fn = "trivia_helper"
    /\ Top.i >= 1
    /\ Top.correct = Top.i
    /\ ~Top.ans.none
    /\ Top.ans.str = upper(TriviaAnswers[Top.picks[Top.i]])
    /\ Top.ans.str # TriviaAnswers[Top.picks[Top.i]]

\* C20: a failed quiz or a wrong code puts the emergency flow back to idle
\* with the process running; from idle the flow can be started whatever has
\* failed before, and in a started flow the ten correct answers and the right
\* code are still taken and unlock.
C20_NoLockout ==
    /\ [][(WrongDismissed \/ ResultDismissed)
            => (stack' = Pop /\ EmergencyFrames' = {} /\ proc' = "running")]_vars
    /\ []((Running /\ stack = << >>) => ENABLED EmergencyClick)
    /\ [](InEmergency("confirm") => ENABLED (EmergencyConfirm /\ stack' # << >> /\ Top'.pc = "quiz"))
    /\ [](InEmergency("quiz") =>
            ENABLED (EmergencyAnswered(Str(EmergencyAnswers[Top.picks[Top.i + 1]]))
                     /\ Top'.correct = Top.correct + 1))
    /\ [](InEmergency("perfect") => ENABLED PerfectDismissed)
    /\ [](InEmergency("entercode") => ENABLED (CodeEntered /\ Top'.pc = "unlocked"))
    /\ [](InEmergency("unlocked") => ENABLED UnlockedDismissed)

\* after failed runs, as many as are told apart, a later run has unlocked
C20_Witness ==
    /\ failures = MaxFailures
    /\ proc = "exited"
    /\ exit_code = 0
    /\ stack # << >>
    /\ Top.fn = "emergency_quiz_flow"
    /\ Top.pc = "unlocked"
    /\ Top.correct = 10

\* the text a service reports under the first of the keys k1, k2 that has a
\* value, or none when that value is not text
Reported(r, k1, k2) ==
    IF r[k1].kind = "num" \/ (r[k1].kind = "str" /\ r[k1].str # << >>)
    THEN (IF r[k1].kind = "str" THEN Str(r[k1].str) ELSE None)
    ELSE IF r[k2].kind = "str" THEN Str(r[k2].str) ELSE IF r[k2].kind = "num" THEN None ELSE Str(<< >>)
\* t is s without the whitespace around it
IsTrimOf(t, s) ==
    /\ \E i \in 0..Len(s), j \in 0..Len(s) :
          /\ i + j <= Len(s)
          /\ t = SubSeq(s, i + 1, Len(s) - j)
          /\ \A k \in (1..i) \cup ((Len(s) - j + 1)..Len(s)) : s[k] \in Whitespace
    /\ t # << >> => t[1] \notin Whitespace /\ t[Len(t)] \notin Whitespace
\* the service answered with an object whose place fields are text and whose
\* country is not blank
GivesCountry(r) ==
    /\ r.kind = "object"
    /\ ~Reported(r, "city", "region").none
    /\ ~Reported(r, "country_name", "country").none
    /\ \E k \in DOMAIN Reported(r, "country_name", "country").str :
          Reported(r, "country_name", "country").str[k] \notin Whitespace

\* C21: the location lookup never raises; it asks the services in their fixed
\* order and passes over one that fails, answers with something that is not
\* a JSON object with text fields, or reports no country; its result is the
\* trimmed city and country of the first service that reports a country, the
\* services after it are not asked, and it is ('', 'Unknown') when no service
\* reports a country
C21_LookupFirstCountry ==
    lookup.called =>
        LET S == lookup.services
            res == lookup.result
            first == { k \in 1..Len(S) :
                         GivesCountry(S[k]) /\ \A j \in 1..(k - 1) : ~GivesCountry(S[j]) }
        IN  /\ ~res.raised
            /\ first = {} =>
                  res.city = << >> /\ res.country = Unknown /\ res.tried = Len(S)
            /\ \A k \in first :
                  /\ res.tried = k
                  /\ res.country # << >>
                  /\ IsTrimOf(res.country, Reported(S[k], "country_name", "country").str)
                  /\ IsTrimOf(res.city, Reported(S[k], "city", "region").str)
\* the first service failed, the second reported no country, the third did
C21_Witness ==
    /\ lookup.called
    /\ lookup.services[1].kind = "error"
    /\ lookup.services[2].kind = "object"
    /\ ~GivesCountry(lookup.services[2])
    /\ GivesCountry(lookup.services[3])
    /\ lookup.result.tried = 3
    /\ lookup.result.country = Peru

\* the notepads that are on the screen
OpenNotepads == { k \in 1..Len(notepads) : notepads[k].open }

\* C22: at most one typing-report notepad is open at any time (the Yes path
\* taken while a notepad is active opens nothing)
C22_AtMostOneNotepad == Cardinality(OpenNotepads) <= 1

\* the effect window with this identity is on the screen
EffectOnScreen(id) == \E w \in effects : w.id = id

\* C25: a picture that cannot be loaded never leaves an effect behind: every
\* full-screen effect window that is created is destroyed in the end
C25_EffectWindowsDestroyed ==
    \A id \in EffectIds : EffectOnScreen(id) ~> ~EffectOnScreen(id)

\* what a glitch shows: the animation in the main window and the effect windows
GlitchShows == << glitch.phase, glitch.i, glitch.moved, glitch.bg, glitch.canvas,
                  glitch.flash_due, effects >>

\* C23: a glitch trigger that comes while the overlay is open or a notepad is
\* active does nothing: no shake, flicker or static starts and no window
\* state changes
C23_GlitchSkipped ==
    [][(glitch_loop /\ (overlay_open \/ active_notepad # 0)) =>
          /\ UNCHANGED << GlitchShows, outside_effects >>
          /\ glitch'.last.did = "skipped"]_vars
\* a trigger came while the overlay was open and was passed over
C23_Witness ==
    /\ glitch.last.did = "skipped"
    /\ glitch.last.overlay
    /\ overlay_open

\* C24: the attempt counter and the overlay state are written by the close
\* handler, the minimize handler and the expiry of the overlay only; the
\* focus watcher, the glitch triggers, the clue finder, the trivia helper, the
\* emergency quiz, the Yes and No flows and Help leave them as they are
C24_WrittenByGuardOnly ==
    [][(attempts' # attempts \/ overlay_open' # overlay_open
          \/ active_overlay' # active_overlay) =>
          (on_close_attempt \/ on_unmap \/ OverlayExpires)]_vars
\* the focus watcher has shown its popup while the overlay was open
C24_Witness ==
    /\ overlay_open
    /\ attempts >= 2
    /\ stack # << >>
    /\ Top.fn = "enforce_focus"

TimersOf(k) == { t \in finish_timers : t.overlay = k }

\* C26: every overlay that is opened has its closing scheduled after a whole
\* number of seconds from 9 to 17, and with the timers firing it expires by
\* itself, the user doing nothing for it
C26_OverlayExpiresByItself ==
    /\ [](\A k \in overlays : TimersOf(k) # {})
    /\ [](\A t \in finish_timers : t.ms % 1000 = 0 /\ t.ms \div 1000 \in 9..17)
    /\ \A k \in OverlayIds : (k \in overlays) ~> (k \notin overlays)
\* an overlay has expired: the attempts it reset were two or more
C26_Witness ==
    /\ reset_from >= 2
    /\ overlays = {}
    /\ finish_timers = {}
    /\ n_opened = 0

\* C27: overlay_open is true exactly when active_overlay refers to an
\* overlay, and while overlay_open is true attempts is 2 or more
C27_OverlayFlagAndReference ==
    /\ overlay_open <=> active_overlay # NoWindow
    /\ overlay_open => attempts >= 2
\* the overlay has just been opened by the second attempt
C27_Witness ==
    /\ overlay_open
    /\ attempts = 2
    /\ active_overlay = OverlayWindow(1)
    /\ reset_from = 0

\* C28: an attempt made while the overlay is open neither extends nor sets
\* again its expiry: an overlay has exactly one expiry timer, set in the step
\* that opens it, and the duration drawn for a repeated attempt is dropped
C28_OneExpiryTimer ==
    /\ [](\A k \in overlays : Cardinality(TimersOf(k)) = 1)
    /\ [][(Attempt /\ overlay_open) => finish_timers' = finish_timers]_vars
    /\ [][\A t \in finish_timers' \ finish_timers :
             ~overlay_open /\ t.overlay \notin overlays /\ t.overlay \in overlays']_vars
\* two attempts were made while the overlay was open, its one timer kept
C28_Witness ==
    /\ overlay_open
    /\ attempts = 4
    /\ n_opened = 1
    /\ \E t \in finish_timers : finish_timers = {t} /\ t.ms = 9000

====
